---- MODULE Spec2Model ----
(***************************************************************************)
(* A model of the tracing and propagation engine of the scope go-agent:    *)
(* the text-map and binary propagators and the identifier generator of     *)
(* package tracer, and the agent's Flush / Stop over the span recorder.    *)
(*                                                                         *)
(* Go strings are TLA+ strings (TLC evaluates Len, \o and SubSeq on them). *)
(* A uuid.UUID is a tuple of 16 bytes.  A uint64 is a tuple of four 16-bit *)
(* limbs, most significant first, because TLC's integers are 32 bits wide. *)
(***************************************************************************)
EXTENDS Integers, Sequences, FiniteSets, TLC

VARIABLES
    tpc,        \* text propagator: "idle" | "carrier" | "extracted"
    torigin,    \* "none" | "inject" | "discrete" | "traceparent" | "foreign"
    tctx,       \* the SpanContext handed to textMapPropagator.Inject
    tcarrier,   \* the text-map carrier: a set of <<key, value>> entries
    tres,       \* the result of textMapPropagator.Extract: [ctx, err]
    bpc,        \* binary propagator: "idle" | "stream" | "extracted"
    bctx,       \* the SpanContext handed to binaryPropagator.Inject
    bstream,    \* the bytes the carrier holds, as a tuple of bytes
    bcut,       \* whether the stream lost its tail on the way
    breader,    \* how the io.Reader answered Extract's Read call
    bres,       \* the result of binaryPropagator.Extract: [ctx, err]
    gpc,        \* per caller: "idle" | "lock" | "read" | "advance" | "unlock"
    gop,        \* per caller: "none" | "randomID" | "randomID2"
    gleft,      \* per caller: the draws its call has still to make
    gpos,       \* per caller: the stream position its draw in progress read
    gout,       \* per caller: the stream positions of all ids it was given
    seededIDGen,   \* the position of the shared pseudo-random stream
    seededIDLock,  \* the caller holding the mutex, or Unlocked
    spans,      \* the recorder's buffer: the spans recorded and not yet taken
    recorded,   \* how many spans RecordSpan was given so far
    justRecorded,  \* the span RecordSpan was given in the last step, or NoSpan
    sent,       \* per span: who passed it to the send callback, in order
    failures,   \* how many deliveries have failed so far
    lpc,        \* background loop: "idle" | "sending" | "final" | "dead"
    lbatch,     \* the batch the background loop is delivering
    dying,      \* the tomb of the loop was killed
    acked,      \* the spans of the batches the send callback accepted
    apc,        \* the goroutine calling Agent.Flush: "idle" | "flushing"
    spc,        \* the goroutine calling Agent.Stop: "idle" | "waiting"
    fbatch,     \* the batch the Flush in progress is delivering
    flushedAtOnce, \* the spans whose RecordSpan was followed at once by Flush
    flushed,    \* Agent.Flush was called
    stop,       \* the calls of Agent.Stop: called, returned and spans (those
                \* recorded before the call) of the first one, flushedBefore:
                \* Flush was called before the first one returned, again: one
                \* more was called, duringFlush: one was called during a Flush
    xpc,        \* a propagator call with arguments of any type: "idle" | "returned"
    xcall,      \* the call: [op, prop, ctx, carrier], the carrier as it was before
    xcarrier,   \* the carrier after the call
    xaccess,    \* what the call did with the carrier: "none" | "written" | "read"
    xres,       \* what the call returned: [ctx, err]
    testingMode,    \* Agent.testingMode
    flushFrequency, \* the recorder's flush frequency, in seconds
    changes,    \* how many times SetTestingMode was called since NewAgent
    unsentAtChange, \* the spans that were buffered, and never sent yet, when
                    \* SetTestingMode was called
    mspans,     \* the in-memory recorder's spans
    mlog,       \* the spans RecordSpan was called with, in the order of the calls
    mall,       \* what GetSpans returned since the last RecordSpan, if called
    msampled,   \* what GetSampledSpans returned since then, if called
    cryptoRead, \* what cryptorand.Read gave generateSeed: [err, bytes]
    clockNow,   \* time.Now().UnixNano() at the fallback, ZeroU64 if not asked
    seed,       \* what generateSeed returned and did: [source, value, logged]
    hpc,        \* nethttp client: "idle", "ready" (request built), "done"
    htransport, \* the Transport: [rt, PayloadInstrumentation]
    hreq,       \* the request handed to RoundTrip: [parent, method, header]
    hcalled,    \* the RoundTripper that received the request, "none" before
    hsent,      \* the request as that RoundTripper received it
    hinner,     \* what that RoundTripper returned
    hresult,    \* what Transport.RoundTrip returned
    hspan,      \* the client span: [started, tags, finished]
    hcloses,    \* Close calls made on the returned response body
    hfinishes,  \* Finish calls made on the client span
    srcPc,      \* ast: where each goroutine stands in GetFuncSource
    srcFunc,    \* the function its pc names: [file, name]
    srcRes,     \* what its last call returned: "none", "nil" or a name
    mutex,      \* the goroutine holding the package mutex, Unlocked if none
    methodCodes, \* the cache: [made, files], files[f] = [made, names]
    srcFatal,   \* the runtime stopped the process on a racing map access
    patched,    \* testing.T.Run is redirected to the replacement
    runStack,   \* per test goroutine, its t.Run calls in progress, innermost first
    agPc,       \* scopeagent: "load", "ready", "tests", "exited", "crashed"
    agBuild,    \* which of the two init/Run/StartTest sources is built
    agInput,    \* what package init met: [err, setTracer, autoInstrument]
    GlobalAgent, \* "nil" or "agent"
    agDone,     \* what init did: [tracer, patched]
    agNilUse,   \* a method was called on a nil GlobalAgent
    agViaRun,   \* the tests run under scopeagent.Run
    agMResult,  \* what m.Run returned, NoCode before
    agResult,   \* what scopeagent.Run returned, NoCode before
    agStopped,  \* "no", "early" (before m.Run returned) or "late"
    agHandler,  \* the panic handler: "none", "nothing" or "flushed"
    endPc,      \* instrumented test: "idle", "started", "ran", "ended"
    endBuild,   \* which of the two texts of Test.End is built
    endTest,    \* the test at its end: [panic, failed, skipped, handler]
    endEvents,  \* what Test.End did to the span and its caller, in order
    wPc,        \* test run: "load", "loaded", "wrapped", "done", "crashed"
    wOrig,      \* the tests of testing.M as the binary was built
    wTests,     \* the tests testing.M now holds
    wIdx,       \* the test being run, 0 before the first
    wStep,      \* where its function stands: "idle", "started", "ran"
    wLog        \* what the test functions did, in order: [ev, name, fn]

tvars == <<tpc, torigin, tctx, tcarrier, tres>>
bvars == <<bpc, bctx, bstream, bcut, breader, bres>>

gvars == <<gpc, gop, gleft, gpos, gout, seededIDGen, seededIDLock>>
rvars == <<spans, recorded, justRecorded, sent, failures, lpc, lbatch, dying,
           acked, apc, spc, fbatch, flushedAtOnce, flushed, stop>>
xvars == <<xpc, xcall, xcarrier, xaccess, xres>>
fvars == <<testingMode, flushFrequency, changes, unsentAtChange>>
mvars == <<mspans, mlog, mall, msampled>>
svars == <<cryptoRead, clockNow, seed>>
hvars == <<hpc, htransport, hreq, hcalled, hsent, hinner, hresult, hspan,
          hcloses, hfinishes>>
avars == <<srcPc, srcFunc, srcRes, mutex, methodCodes, srcFatal>>
pvars == <<patched, runStack>>
gavars == <<agPc, agBuild, agInput, GlobalAgent, agDone, agNilUse, agViaRun,
           agMResult, agResult, agStopped, agHandler>>
evars == <<endPc, endBuild, endTest, endEvents>>
wvars == <<wPc, wOrig, wTests, wIdx, wStep, wLog>>
vars == <<tvars, bvars, gvars, rvars, xvars, fvars, mvars, svars, hvars, avars,
          pvars, gavars, evars, wvars>>
nonWrap == <<tvars, bvars, gvars, rvars, xvars, fvars, mvars, svars, hvars, avars,
            pvars, gavars, evars>>
nonEnd == <<tvars, bvars, gvars, rvars, xvars, fvars, mvars, svars, hvars, avars,
           pvars, gavars, wvars>>
nonAgent == <<tvars, bvars, gvars, rvars, xvars, fvars, mvars, svars, hvars, avars,
             pvars, evars, wvars>>
nonPatch == <<tvars, bvars, gvars, rvars, xvars, fvars, mvars, svars, hvars, avars, gavars, evars, wvars>>
nonHttp == <<tvars, bvars, gvars, rvars, xvars, fvars, mvars, svars, avars, pvars, gavars, evars, wvars>>
nonSources == <<tvars, bvars, gvars, rvars, xvars, fvars, mvars, svars, hvars, pvars, gavars, evars, wvars>>
nonText == <<bvars, gvars, rvars, xvars, fvars, mvars, svars, hvars, avars, pvars, gavars, evars, wvars>>
nonBinary == <<tvars, gvars, rvars, xvars, fvars, mvars, svars, hvars, avars, pvars, gavars, evars, wvars>>
nonGenerator == <<tvars, bvars, rvars, xvars, fvars, mvars, svars, hvars, avars, pvars, gavars, evars, wvars>>
nonRecorder == <<tvars, bvars, gvars, xvars, fvars, mvars, svars, hvars, avars, pvars, gavars, evars, wvars>>
nonCalls == <<tvars, bvars, gvars, rvars, fvars, mvars, svars, hvars, avars, pvars, gavars, evars, wvars>>
nonFrequency == <<tvars, bvars, gvars, rvars, xvars, mvars, svars, hvars, avars, pvars, gavars, evars, wvars>>
nonInMemory == <<tvars, bvars, gvars, rvars, xvars, fvars, svars, hvars, avars, pvars, gavars, evars, wvars>>
nonProcess == <<tvars, bvars, rvars, xvars, fvars, mvars, hvars, avars, pvars, gavars, evars, wvars>>

----------------------------------------------------------------------------
(* Strings: package strings and strconv of the Go standard library.        *)

Char(s, i) == SubSeq(s, i, i)

UpperLetters == "ABCDEFGHIJKLMNOPQRSTUVWXYZ"
LowerLetters == "abcdefghijklmnopqrstuvwxyz"
HexDigits == "0123456789abcdefABCDEF"

UpperChars == {Char(UpperLetters, i) : i \in 1..Len(UpperLetters)}

ToLowerMap ==
    [c \in UpperChars |->
        Char(LowerLetters, CHOOSE i \in 1..Len(UpperLetters) : Char(UpperLetters, i) = c)]

ToLowerChar(c) == IF c \in UpperChars THEN ToLowerMap[c] ELSE c

RECURSIVE ToLowerFrom(_, _)
ToLowerFrom(s, i) ==
    IF i > Len(s) THEN "" ELSE ToLowerChar(Char(s, i)) \o ToLowerFrom(s, i + 1)

\* strings.ToLower
ToLower(s) == ToLowerFrom(s, 1)

\* strings.HasPrefix
HasPrefix(s, prefix) ==
    Len(s) >= Len(prefix) /\ SubSeq(s, 1, Len(prefix)) = prefix

\* strings.TrimPrefix
TrimPrefix(s, prefix) ==
    IF HasPrefix(s, prefix) THEN SubSeq(s, Len(prefix) + 1, Len(s)) ELSE s

RECURSIVE SplitFrom(_, _, _)
SplitFrom(s, i, start) ==
    IF i > Len(s) THEN <<SubSeq(s, start, Len(s))>>
    ELSE IF Char(s, i) = "-"
         THEN <<SubSeq(s, start, i - 1)>> \o SplitFrom(s, i + 1, i + 1)
         ELSE SplitFrom(s, i + 1, start)

\* strings.Split(s, "-")
SplitDash(s) == SplitFrom(s, 1, 1)

RECURSIVE RemoveDashFrom(_, _)
RemoveDashFrom(s, i) ==
    IF i > Len(s) THEN ""
    ELSE (IF Char(s, i) = "-" THEN "" ELSE Char(s, i)) \o RemoveDashFrom(s, i + 1)

\* strings.Replace(s, "-", "", -1)
RemoveDashes(s) == RemoveDashFrom(s, 1)

HexChars == {Char(HexDigits, i) : i \in 1..Len(HexDigits)}

\* the value of a hexadecimal digit, lower or upper case
HexVal ==
    [c \in HexChars |->
        LET i == CHOOSE j \in 1..Len(HexDigits) : Char(HexDigits, j) = c
        IN  IF i <= 16 THEN i - 1 ELSE i - 7]

NibbleChar(n) == Char(HexDigits, n + 1)

ByteHex(b) == NibbleChar(b \div 16) \o NibbleChar(b % 16)

LimbHex(l) == ByteHex(l \div 256) \o ByteHex(l % 256)

RECURSIVE AllHexFrom(_, _)
AllHexFrom(s, i) ==
    i > Len(s) \/ (Char(s, i) \in HexChars /\ AllHexFrom(s, i + 1))

RECURSIVE StripZerosFrom(_, _)
StripZerosFrom(s, i) ==
    IF i > Len(s) THEN ""
    ELSE IF Char(s, i) = "0" THEN StripZerosFrom(s, i + 1)
    ELSE SubSeq(s, i, Len(s))

RECURSIVE ZeroPad(_, _)
ZeroPad(s, width) == IF Len(s) >= width THEN s ELSE ZeroPad("0" \o s, width)

ZeroU64 == <<0, 0, 0, 0>>
MaxU64 == <<65535, 65535, 65535, 65535>>

\* fmt's %016x of a uint64
PadHex16(x) == LimbHex(x[1]) \o LimbHex(x[2]) \o LimbHex(x[3]) \o LimbHex(x[4])

\* strconv.FormatUint(x, 16)
FormatUint16(x) ==
    LET d == StripZerosFrom(PadHex16(x), 1) IN IF d = "" THEN "0" ELSE d

HexLimb(s, i) ==
    HexVal[Char(s, i)] * 4096 + HexVal[Char(s, i + 1)] * 256
        + HexVal[Char(s, i + 2)] * 16 + HexVal[Char(s, i + 3)]

\* strconv.ParseUint(s, 16, 64): the value and whether err == nil.  A syntax
\* error returns 0, a value of 2^64 or more returns the maximum.
ParseUint16(s) ==
    IF s = "" \/ ~AllHexFrom(s, 1) THEN [val |-> ZeroU64, ok |-> FALSE]
    ELSE LET d == StripZerosFrom(s, 1) IN
         IF Len(d) > 16 THEN [val |-> MaxU64, ok |-> FALSE]
         ELSE LET p == ZeroPad(d, 16) IN
              [val |-> <<HexLimb(p, 1), HexLimb(p, 5), HexLimb(p, 9), HexLimb(p, 13)>>,
               ok |-> TRUE]

\* strconv.ParseBool
ParseBool(s) ==
    IF s \in {"1", "t", "T", "TRUE", "true", "True"} THEN [val |-> TRUE, ok |-> TRUE]
    ELSE IF s \in {"0", "f", "F", "FALSE", "false", "False"} THEN [val |-> FALSE, ok |-> TRUE]
    ELSE [val |-> FALSE, ok |-> FALSE]

\* strconv.FormatBool
FormatBool(b) == IF b THEN "true" ELSE "false"

----------------------------------------------------------------------------
(* github.com/google/uuid v1.1.1: UUID.String and Parse.                   *)

ZeroUUID == [i \in 1..16 |-> 0]

RECURSIVE BytesHex(_, _, _)
BytesHex(u, a, b) == IF a > b THEN "" ELSE ByteHex(u[a]) \o BytesHex(u, a + 1, b)

\* UUID.String: xxxxxxxx-xxxx-xxxx-xxxx-xxxxxxxxxxxx, lower-case
UUIDString(u) ==
    BytesHex(u, 1, 4) \o "-" \o BytesHex(u, 5, 6) \o "-" \o BytesHex(u, 7, 8)
        \o "-" \o BytesHex(u, 9, 10) \o "-" \o BytesHex(u, 11, 16)

\* xtob on the two characters at (1-based) position i of s
xtobOk(s, i) == Char(s, i) \in HexChars /\ Char(s, i + 1) \in HexChars
xtobVal(s, i) == HexVal[Char(s, i)] * 16 + HexVal[Char(s, i + 1)]

\* the decoding loops of Parse: the bytes before the first bad pair are
\* filled in, the others stay zero
DecodePairs(s, at) ==
    LET bad == {i \in 1..16 : ~xtobOk(s, at[i])} IN
    [uuid |-> [i \in 1..16 |-> IF \A j \in bad : i < j THEN xtobVal(s, at[i]) ELSE 0],
     ok |-> bad = {}]

DashedOffsets == <<1, 3, 5, 7, 10, 12, 15, 17, 20, 22, 25, 27, 29, 31, 33, 35>>

ParseDashed(s) ==
    IF Char(s, 9) # "-" \/ Char(s, 14) # "-" \/ Char(s, 19) # "-" \/ Char(s, 24) # "-"
    THEN [uuid |-> ZeroUUID, ok |-> FALSE]
    ELSE DecodePairs(s, DashedOffsets)

\* uuid.Parse: the UUID (partially filled on a decoding error) and whether
\* err == nil
UUIDParse(s) ==
    CASE Len(s) = 36 -> ParseDashed(s)
      [] Len(s) = 45 ->
            IF ToLower(SubSeq(s, 1, 9)) # "urn:uuid:"
            THEN [uuid |-> ZeroUUID, ok |-> FALSE]
            ELSE ParseDashed(SubSeq(s, 10, 45))
      [] Len(s) = 38 -> ParseDashed(SubSeq(s, 2, 38))
      [] Len(s) = 32 -> DecodePairs(s, [i \in 1..16 |-> 2 * i - 1])
      [] OTHER -> [uuid |-> ZeroUUID, ok |-> FALSE]

----------------------------------------------------------------------------
(* tracer/propagation_ot.go: the text-map propagator.                      *)

prefixTracerState == "ot-tracer-"
prefixBaggage == "ot-baggage-"
tracerStateFieldCount == 3
fieldNameTraceID == prefixTracerState \o "traceid"
fieldNameSpanID == prefixTracerState \o "spanid"
fieldNameSampled == prefixTracerState \o "sampled"
traceParentKey == "traceparent"

NilCtx == [nil |-> TRUE]
EmptyMap == <<>>

\* m[k] = v on a Go map
MapPut(m, k, v) == [x \in (DOMAIN m) \cup {k} |-> IF x = k THEN v ELSE m[x]]

\* opentracing.TextMapCarrier.Set: c[key] = val
CarrierSet(c, k, v) == {e \in c : e[1] # k} \cup {<<k, v>>}

\* traceId := strings.Replace(sc.TraceID.String(), "-", "", -1)
InjectTraceId(sc) == RemoveDashes(UUIDString(sc.TraceID))

\* a traceparent whose span id is written with %x instead of %016x
TraceParentValue_Unpadded(sc) ==
    "00" \o "-" \o InjectTraceId(sc) \o "-" \o FormatUint16(sc.SpanID)
        \o "-" \o (IF sc.Sampled THEN "01" ELSE "00")

\* fmt.Sprintf("%v-%v-%016x-%v", "00", traceId, sc.SpanID, tpSampled)
TraceParentValue(sc) ==
    "00" \o "-" \o InjectTraceId(sc) \o "-" \o PadHex16(sc.SpanID)
        \o "-" \o (IF sc.Sampled THEN "01" ELSE "00")

\* the key Inject writes a baggage item under
BaggageKey(k) == prefixBaggage \o k

\* for k, v := range sc.Baggage { carrier.Set(prefixBaggage+k, v) }
InjectBaggage(c, baggage) ==
    {e \in c : \A k \in DOMAIN baggage : e[1] # BaggageKey(k)}
        \cup {<<BaggageKey(k), baggage[k]>> : k \in DOMAIN baggage}

\* textMapPropagator.Inject on an empty opentracing.TextMapCarrier
TextInject(sc) ==
    LET c1 == CarrierSet({}, fieldNameTraceID, InjectTraceId(sc))
        c2 == CarrierSet(c1, fieldNameSpanID, FormatUint16(sc.SpanID))
        c3 == CarrierSet(c2, fieldNameSampled, FormatBool(sc.Sampled))
        c4 == CarrierSet(c3, traceParentKey, TraceParentValue(sc))
    IN  InjectBaggage(c4, sc.Baggage)

ExtractState0 ==
    [requiredFieldCount |-> 0, traceID |-> ZeroUUID, spanID |-> ZeroU64,
     sampled |-> FALSE, decodedBaggage |-> EmptyMap]

Corrupted(st) == [st |-> st, err |-> "ErrSpanContextCorrupted"]
Continue(st) == [st |-> st, err |-> "nil"]

\* a flag test that takes every flag for sampled
TraceFlagSampled_Always(flag) == TRUE

\* if traceParentArray[3] == "01" { sampled = true }
TraceFlagSampled(flag) == flag = "01"

\* the traceparent case of the first ForeachKey handler
TraceParentCase(st, v) ==
    IF Len(v) < 55 THEN Corrupted(st)
    ELSE LET traceParentArray == SplitDash(v) IN
         IF \/ Len(traceParentArray) < 4
            \/ traceParentArray[1] # "00"
            \/ Len(traceParentArray[2]) # 32
            \/ Len(traceParentArray[3]) # 16
         THEN Corrupted(st)
         ELSE LET t == UUIDParse(traceParentArray[2])
                  st1 == [st EXCEPT !.traceID = t.uuid]
              IN  IF ~t.ok THEN Corrupted(st1)
                  ELSE LET s == ParseUint16(traceParentArray[3])
                           st2 == [st1 EXCEPT !.spanID = s.val]
                       IN  IF ~s.ok THEN Corrupted(st2)
                           ELSE Continue(
                                  [st2 EXCEPT
                                     !.sampled = IF TraceFlagSampled(traceParentArray[4])
                                                 THEN TRUE ELSE @,
                                     !.requiredFieldCount = @ + 3 + 1])

\* the first ForeachKey handler
TraceParentHandler(st, k, v) ==
    IF ToLower(k) = traceParentKey
    THEN TraceParentCase(st, v)
    ELSE Continue([st EXCEPT !.requiredFieldCount = (@ - 1) + 1])

\* the second ForeachKey handler
FieldHandler(st, k, v) ==
    LET lowercaseK == ToLower(k) IN
    CASE lowercaseK = fieldNameTraceID ->
            LET t == UUIDParse(v)
                st1 == [st EXCEPT !.traceID = t.uuid]
            IN  IF ~t.ok THEN Corrupted(st1)
                ELSE Continue([st1 EXCEPT !.requiredFieldCount = @ + 1])
      [] lowercaseK = fieldNameSpanID ->
            LET s == ParseUint16(v)
                st1 == [st EXCEPT !.spanID = s.val]
            IN  IF ~s.ok THEN Corrupted(st1)
                ELSE Continue([st1 EXCEPT !.requiredFieldCount = @ + 1])
      [] lowercaseK = fieldNameSampled ->
            LET b == ParseBool(v)
                st1 == [st EXCEPT !.sampled = b.val]
            IN  IF ~b.ok THEN Corrupted(st1)
                ELSE Continue([st1 EXCEPT !.requiredFieldCount = @ + 1])
      [] OTHER ->
            LET st1 == IF HasPrefix(lowercaseK, prefixBaggage)
                       THEN [st EXCEPT !.decodedBaggage =
                                MapPut(@, TrimPrefix(lowercaseK, prefixBaggage), v)]
                       ELSE st
            IN  Continue([st1 EXCEPT !.requiredFieldCount = (@ - 1) + 1])

\* opentracing.TextMapCarrier.ForeachKey over the entries in the order ord,
\* with the first handler: it stops at the first error
RECURSIVE ForeachKey1(_, _, _)
ForeachKey1(st, ord, i) ==
    IF i > Len(ord) THEN Continue(st)
    ELSE LET r == TraceParentHandler(st, ord[i][1], ord[i][2]) IN
         IF r.err # "nil" THEN r ELSE ForeachKey1(r.st, ord, i + 1)

\* the same, with the second handler
RECURSIVE ForeachKey2(_, _, _)
ForeachKey2(st, ord, i) ==
    IF i > Len(ord) THEN Continue(st)
    ELSE LET r == FieldHandler(st, ord[i][1], ord[i][2]) IN
         IF r.err # "nil" THEN r ELSE ForeachKey2(r.st, ord, i + 1)

\* an Extract that tests the first ForeachKey's result only
ErrAfterPasses_First(err1, err2) == err1

\* err after the two passes: the second ForeachKey's result is assigned
\* over the first one's
ErrAfterPasses(err1, err2) == err2

\* the decision at the end of Extract
ExtractDecision(st, err) ==
    IF err # "nil" THEN [ctx |-> NilCtx, err |-> err]
    ELSE IF st.requiredFieldCount < tracerStateFieldCount
         THEN IF st.requiredFieldCount = 0
              THEN [ctx |-> NilCtx, err |-> "ErrSpanContextNotFound"]
              ELSE [ctx |-> NilCtx, err |-> "ErrSpanContextCorrupted"]
         ELSE [ctx |-> [TraceID |-> st.traceID, SpanID |-> st.spanID,
                        Sampled |-> st.sampled, Baggage |-> st.decodedBaggage],
               err |-> "nil"]

\* an Extract that reads the discrete fields first and traceparent last
TextExtract_DiscreteFirst(ord) ==
    LET p1 == ForeachKey2(ExtractState0, ord, 1)
        p2 == ForeachKey1(p1.st, ord, 1)
    IN  ExtractDecision(p2.st, ErrAfterPasses(p2.err, p1.err))

\* textMapPropagator.Extract on a carrier that enumerates its entries in the
\* order ord
TextExtract(ord) ==
    LET p1 == ForeachKey1(ExtractState0, ord, 1)
        p2 == ForeachKey2(p1.st, ord, 1)
    IN  ExtractDecision(p2.st, ErrAfterPasses(p1.err, p2.err))

----------------------------------------------------------------------------
(* The contexts handed to Inject and the carriers received from a peer.    *)

MaxBaggage == 1
MaxKeys == 3

TraceIdA == <<1, 35, 69, 103, 137, 171, 205, 239, 254, 220, 186, 152, 118, 84, 50, 16>>
TraceIdB == <<0, 0, 0, 0, 0, 0, 0, 0, 0, 0, 0, 0, 0, 0, 0, 10>>
SpanIdA == <<0, 0, 0, 171>>
SpanIdB == <<65244, 47768, 30292, 12816>>

RECURSIVE SubsetsUpTo(_, _)
SubsetsUpTo(S, k) ==
    IF k = 0 THEN {{}}
    ELSE LET prev == SubsetsUpTo(S, k - 1) IN prev \cup {p \cup {e} : p \in prev, e \in S}

BaggageKeys == {"uid", "Uid"}
BaggageValues == {"a", "b"}

Baggages ==
    UNION {[ks -> BaggageValues] : ks \in SubsetsUpTo(BaggageKeys, MaxBaggage)}

\* the zero value SpanContext{}
ZeroContext ==
    [TraceID |-> ZeroUUID, SpanID |-> ZeroU64, Sampled |-> FALSE, Baggage |-> EmptyMap]

Contexts ==
    [TraceID : {TraceIdA, TraceIdB}, SpanID : {SpanIdA, SpanIdB},
     Sampled : BOOLEAN, Baggage : Baggages] \cup {ZeroContext}

HexTraceA == "0123456789abcdeffedcba9876543210"
HexTraceC == "000000000000000000000000000000c0"
HexSpanC == "00000000000000c1"

\* the entries a received carrier is made of: well-formed and malformed
\* values of each field, keys in several letter cases, baggage, other keys
EntryPool ==
    { <<"ot-tracer-traceid", HexTraceA>>,
      <<"OT-TRACER-TRACEID", "0000000A-0000-0000-0000-00000000000B">>,
      <<"ot-tracer-traceid", "zz23456789abcdeffedcba9876543210">>,
      <<"ot-tracer-spanid", "ab">>,
      <<"Ot-Tracer-Spanid", "FEDCBA9876543210">>,
      <<"ot-tracer-spanid", "12345678901234567">>,
      <<"ot-tracer-sampled", "true">>,
      <<"ot-tracer-sampled", "0">>,
      <<"ot-tracer-sampled", "yes">>,
      <<"traceparent", "00-" \o HexTraceC \o "-" \o HexSpanC \o "-01">>,
      <<"Traceparent", "00-" \o HexTraceC \o "-" \o HexSpanC \o "-00">>,
      <<"traceparent", "00-" \o HexTraceA \o "-" \o HexSpanC \o "-03">>,
      <<"traceparent", "01-" \o HexTraceC \o "-" \o HexSpanC \o "-01">>,
      <<"traceparent", "00-" \o "0" \o HexTraceC \o "-" \o SubSeq(HexSpanC, 2, 16) \o "-01">>,
      <<"traceparent", "00-" \o SubSeq(HexTraceC, 2, 32) \o "-" \o HexSpanC \o "-01">>,
      <<"traceparent", "00-" \o "zz" \o SubSeq(HexTraceC, 3, 32) \o "-" \o HexSpanC \o "-01">>,
      <<"traceparent", "00-" \o HexTraceC \o "-" \o "zz" \o SubSeq(HexSpanC, 3, 16) \o "-01">>,
      <<"traceparent", "00-" \o HexTraceC \o "-" \o HexSpanC \o "-01-extra">>,
      <<"ot-baggage-uid", "a">>,
      <<"OT-Baggage-Uid", "b">>,
      <<"x-request-id", "1">> }

ForeignCarriers == SubsetsUpTo(EntryPool, MaxKeys)

\* the orders in which ranging over a Go map may enumerate the entries S
RECURSIVE Orders(_)
Orders(S) ==
    IF S = {} THEN {<<>>}
    ELSE UNION {{<<e>> \o r : r \in Orders(S \ {e})} : e \in S}

DiscreteFields == {fieldNameTraceID, fieldNameSpanID, fieldNameSampled}

----------------------------------------------------------------------------
(* The text propagator's operations.                                       *)

NoResult == [ctx |-> NilCtx, err |-> "none"]

\* Inject(sc, carrier) into a fresh carrier
TextDoInject ==
    /\ tpc = "idle"
    /\ \E sc \in Contexts :
          /\ tctx' = sc
          /\ tcarrier' = TextInject(sc)
    /\ torigin' = "inject"
    /\ tpc' = "carrier"
    /\ UNCHANGED tres
    /\ UNCHANGED nonText

\* a hop that forwards only the ot-tracer-* fields and the baggage
TextKeepDiscrete ==
    /\ tpc = "carrier" /\ torigin = "inject"
    /\ tcarrier' = {e \in tcarrier : e[1] # traceParentKey}
    /\ torigin' = "discrete"
    /\ UNCHANGED <<tpc, tctx, tres>>
    /\ UNCHANGED nonText

\* a hop that forwards only the traceparent field and the baggage
TextKeepTraceparent ==
    /\ tpc = "carrier" /\ torigin = "inject"
    /\ tcarrier' = {e \in tcarrier : e[1] \notin DiscreteFields}
    /\ torigin' = "traceparent"
    /\ UNCHANGED <<tpc, tctx, tres>>
    /\ UNCHANGED nonText

\* a carrier filled by a peer
TextReceive ==
    /\ tpc = "idle"
    /\ tcarrier' \in ForeignCarriers
    /\ torigin' = "foreign"
    /\ tpc' = "carrier"
    /\ UNCHANGED <<tctx, tres>>
    /\ UNCHANGED nonText

\* Extract(carrier): the carrier enumerates its entries in some order
TextDoExtract ==
    /\ tpc = "carrier"
    /\ \E ord \in Orders(tcarrier) : tres' = TextExtract(ord)
    /\ tpc' = "extracted"
    /\ UNCHANGED <<torigin, tctx, tcarrier>>
    /\ UNCHANGED nonText

TextReset ==
    /\ tpc = "extracted"
    /\ tpc' = "idle"
    /\ torigin' = "none"
    /\ tctx' = NilCtx
    /\ tcarrier' = {}
    /\ tres' = NoResult
    /\ UNCHANGED nonText

TextInit ==
    /\ tpc = "idle"
    /\ torigin = "none"
    /\ tctx = NilCtx
    /\ tcarrier = {}
    /\ tres = NoResult

TextNext ==
    \/ TextDoInject
    \/ TextKeepDiscrete
    \/ TextKeepTraceparent
    \/ TextReceive
    \/ TextDoExtract
    \/ TextReset

----------------------------------------------------------------------------
(* Vocabulary of the properties of the text propagator.                    *)

FromInject == tpc = "extracted" /\ torigin \in {"inject", "discrete", "traceparent"}
FromPeer == tpc = "extracted" /\ torigin = "foreign"

\* the carrier holds the key k, letter case aside
HoldsKey(c, k) == \E e \in c : ToLower(e[1]) = k

\* the discrete fields the carrier holds
FieldsHeld(c) == {f \in DiscreteFields : HoldsKey(c, f)}

\* a traceparent value failing one of the checks of its first four parts
MalformedTraceparent(v) ==
    LET a == SplitDash(v) IN
    \/ Len(a) < 4
    \/ a[1] # "00"
    \/ Len(a[2]) # 32
    \/ Len(a[3]) # 16
    \/ ~AllHexFrom(a[2], 1)
    \/ ~AllHexFrom(a[3], 1)

\* the carrier holds a traceparent entry whose first four parts are in order
HoldsValidTraceparent(c) ==
    \E e \in c : ToLower(e[1]) = traceParentKey /\ ~MalformedTraceparent(e[2])

\* a discrete-field entry whose value does not parse
MalformedField(e) ==
    \/ ToLower(e[1]) = fieldNameTraceID /\ ~UUIDParse(e[2]).ok
    \/ ToLower(e[1]) = fieldNameSpanID /\ ~ParseUint16(e[2]).ok
    \/ ToLower(e[1]) = fieldNameSampled /\ ~ParseBool(e[2]).ok

HoldsMalformedField(c) == \E e \in c : MalformedField(e)

\* the baggage Extract gives back for the baggage b handed to Inject: the
\* keys lower-cased, each with the value of an entry of b that has that key
LowerCasedBaggage(b, got) ==
    /\ DOMAIN got = {ToLower(k) : k \in DOMAIN b}
    /\ \A g \in DOMAIN got : \E k \in DOMAIN b : ToLower(k) = g /\ b[k] = got[g]

----------------------------------------------------------------------------
(* Properties of the text propagator.                                      *)

\* C1 (as stated): Extract of the carrier filled by Inject(ctx) succeeds and
\* returns ctx itself: same TraceID, SpanID, Sampled and Baggage, also when
\* only the ot-tracer-* fields or only traceparent are kept.
C1_RoundTripExact ==
    FromInject => (tres.err = "nil" /\ tres.ctx = tctx)

\* C1 (amended): Extract of the carrier filled by Inject(ctx) succeeds with
\* the same TraceID, SpanID and Sampled, and with ctx's baggage under
\* lower-cased keys, also when only the ot-tracer-* fields or only
\* traceparent are kept.
C1_RoundTripLowerCased ==
    FromInject =>
        /\ tres.err = "nil"
        /\ tres.ctx.TraceID = tctx.TraceID
        /\ tres.ctx.SpanID = tctx.SpanID
        /\ tres.ctx.Sampled = tctx.Sampled
        /\ LowerCasedBaggage(tctx.Baggage, tres.ctx.Baggage)

C1_Witness ==
    /\ tpc = "extracted" /\ torigin = "traceparent"
    /\ tctx.SpanID = SpanIdA /\ tctx.Sampled
    /\ "Uid" \in DOMAIN tctx.Baggage
    /\ tres.err = "nil"
    /\ tres.ctx.SpanID = SpanIdA
    /\ DOMAIN tres.ctx.Baggage = {"uid"}

\* C3: Extract returns ErrSpanContextNotFound on a carrier holding no
\* discrete field and no traceparent, and ErrSpanContextCorrupted on a
\* carrier holding one or two of the three discrete fields, each
\* well-formed, and no valid traceparent.
C3_NotFoundOrCorrupted ==
    FromPeer =>
        /\ (FieldsHeld(tcarrier) = {} /\ ~HoldsKey(tcarrier, traceParentKey))
              => tres.err = "ErrSpanContextNotFound"
        /\ (/\ Cardinality(FieldsHeld(tcarrier)) \in {1, 2}
            /\ ~HoldsMalformedField(tcarrier)
            /\ ~HoldsValidTraceparent(tcarrier))
              => tres.err = "ErrSpanContextCorrupted"

\* C4: Extract returns ErrSpanContextCorrupted whenever the carrier holds a
\* malformed traceparent value, whatever else it holds.
C4_MalformedTraceparentCorrupted ==
    (FromPeer /\ \E e \in tcarrier :
                    ToLower(e[1]) = traceParentKey /\ MalformedTraceparent(e[2]))
        => tres.err = "ErrSpanContextCorrupted"

\* C5: when Extract succeeds on a carrier with no valid traceparent, the
\* carrier holds all three discrete fields.
C5_SuccessNeedsThreeFields ==
    (FromPeer /\ ~HoldsValidTraceparent(tcarrier) /\ tres.err = "nil")
        => FieldsHeld(tcarrier) = DiscreteFields

\* C10: when a discrete field of the carrier is malformed, Extract returns
\* ErrSpanContextCorrupted and no SpanContext, also when the carrier holds
\* a valid traceparent.
C10_MalformedFieldCorrupted ==
    (FromPeer /\ HoldsMalformedField(tcarrier))
        => (tres.err = "ErrSpanContextCorrupted" /\ tres.ctx = NilCtx)

C10_Witness ==
    /\ FromPeer
    /\ HoldsMalformedField(tcarrier)
    /\ HoldsValidTraceparent(tcarrier)
    /\ tres.err = "ErrSpanContextCorrupted"

\* a traceparent value "00-<32 hex>-<16 hex>-<flag>", the flag two
\* characters long
WellFormedTraceparent(v) ==
    LET a == SplitDash(v) IN
    /\ Len(a) = 4
    /\ ~MalformedTraceparent(v)
    /\ Len(a[4]) = 2

\* the traceparent entries of the carrier
TraceparentEntries(c) == {e \in c : ToLower(e[1]) = traceParentKey}

\* C11: on a carrier that holds no discrete field and one traceparent
\* entry, well-formed, Extract succeeds; the trace id and the span id it
\* returns print as the second and third part of the value, and Sampled is
\* true exactly when the fourth part is "01".
C11_TraceparentAlone ==
    (/\ tpc = "extracted"
     /\ FieldsHeld(tcarrier) = {}
     /\ Cardinality(TraceparentEntries(tcarrier)) = 1
     /\ \A e \in TraceparentEntries(tcarrier) : WellFormedTraceparent(e[2]))
        => \A e \in TraceparentEntries(tcarrier) :
              LET a == SplitDash(e[2]) IN
              /\ tres.err = "nil"
              /\ RemoveDashes(UUIDString(tres.ctx.TraceID)) = ToLower(a[2])
              /\ PadHex16(tres.ctx.SpanID) = ToLower(a[3])
              /\ tres.ctx.Sampled <=> (a[4] = "01")

C11_Witness ==
    /\ FromPeer
    /\ FieldsHeld(tcarrier) = {}
    /\ TraceparentEntries(tcarrier) =
          {<<"traceparent", "00-" \o HexTraceA \o "-" \o HexSpanC \o "-03">>}
    /\ tres.err = "nil"
    /\ ~tres.ctx.Sampled
    /\ tres.ctx.TraceID = TraceIdA

\* the entries of the carrier for the discrete field f
FieldEntries(c, f) == {e \in c : ToLower(e[1]) = f}

\* one well-formed traceparent entry, at least one discrete field, each
\* discrete field at most once and none malformed
BothForms(c) ==
    /\ Cardinality(TraceparentEntries(c)) = 1
    /\ \A e \in TraceparentEntries(c) : WellFormedTraceparent(e[2])
    /\ FieldsHeld(c) # {}
    /\ \A f \in DiscreteFields : Cardinality(FieldEntries(c, f)) <= 1
    /\ ~HoldsMalformedField(c)

\* C26: on a carrier holding a well-formed traceparent and discrete
\* fields, Extract succeeds, in whatever order the entries were
\* enumerated; each of trace id, span id and sampled is the one its
\* discrete field gives when the carrier holds that field, and the one
\* traceparent gives only when it does not.
C26_DiscreteFieldsWin ==
    (tpc = "extracted" /\ BothForms(tcarrier)) =>
        /\ tres.err = "nil"
        /\ \A e \in TraceparentEntries(tcarrier) :
              LET a == SplitDash(e[2]) IN
              /\ ~HoldsKey(tcarrier, fieldNameTraceID) =>
                    RemoveDashes(UUIDString(tres.ctx.TraceID)) = ToLower(a[2])
              /\ ~HoldsKey(tcarrier, fieldNameSpanID) =>
                    PadHex16(tres.ctx.SpanID) = ToLower(a[3])
              /\ ~HoldsKey(tcarrier, fieldNameSampled) =>
                    (tres.ctx.Sampled <=> (a[4] = "01"))
        /\ \A e \in FieldEntries(tcarrier, fieldNameTraceID) :
              RemoveDashes(UUIDString(tres.ctx.TraceID)) = ToLower(RemoveDashes(e[2]))
        /\ \A e \in FieldEntries(tcarrier, fieldNameSpanID) :
              FormatUint16(tres.ctx.SpanID) = ToLower(e[2])
        /\ \A e \in FieldEntries(tcarrier, fieldNameSampled) :
              tres.ctx.Sampled <=> (e[2] \in {"1", "t", "T", "TRUE", "true", "True"})

\* traceparent says trace ...c0 and sampled; the discrete fields say
\* another trace and not sampled, and win
C26_Witness ==
    /\ FromPeer
    /\ tcarrier = {<<"traceparent", "00-" \o HexTraceC \o "-" \o HexSpanC \o "-01">>,
                   <<"ot-tracer-traceid", HexTraceA>>,
                   <<"ot-tracer-sampled", "0">>}
    /\ tres.err = "nil"
    /\ tres.ctx.TraceID = TraceIdA
    /\ ~tres.ctx.Sampled
    /\ PadHex16(tres.ctx.SpanID) = HexSpanC

\* C12: Extract returns ErrSpanContextCorrupted on every carrier holding a
\* traceparent value of five or more hyphen-separated parts.
C12_ExactlyFourParts ==
    (FromPeer /\ \E e \in TraceparentEntries(tcarrier) : Len(SplitDash(e[2])) >= 5)
        => tres.err = "ErrSpanContextCorrupted"

\* C13: the carrier filled by Inject(ctx) holds, for every baggage entry
\* (k, v) of ctx, the entry ("ot-baggage-" followed by k lower-cased, v).
C13_BaggageKeysLowerCased ==
    (tpc = "carrier" /\ torigin = "inject")
        => \A k \in DOMAIN tctx.Baggage :
              <<prefixBaggage \o ToLower(k), tctx.Baggage[k]>> \in tcarrier

----------------------------------------------------------------------------
(* encoding/binary, and the payload codec of wire.TracerState: the proto3  *)
(* encoding of trace_id_hi, trace_id_lo, span_id (fixed64, fields 1 to 3), *)
(* sampled (bool, field 4) and baggage_items (map<string, string>, field   *)
(* 5).  A field holding its zero value is not written.                     *)

\* binary.BigEndian.Uint64 of eight bytes
BigEndianUint64(b) ==
    <<b[1] * 256 + b[2], b[3] * 256 + b[4], b[5] * 256 + b[6], b[7] * 256 + b[8]>>

\* binary.BigEndian.PutUint64
BigEndianPutUint64(x) ==
    <<x[1] \div 256, x[1] % 256, x[2] \div 256, x[2] % 256,
      x[3] \div 256, x[3] % 256, x[4] \div 256, x[4] % 256>>

\* binary.Write(carrier, binary.BigEndian, &length) of a uint32
BigEndianPutUint32(n) ==
    <<n \div 16777216, (n \div 65536) % 256, (n \div 256) % 256, n % 256>>

\* binary.Read(carrier, binary.BigEndian, &length) of four bytes
BigEndianUint32(b) == ((b[1] * 256 + b[2]) * 256 + b[3]) * 256 + b[4]

\* the characters of the baggage of the model and their bytes; "@" stands
\* for the character of byte 0, which a string decoded from a zero-filled
\* buffer holds
ByteOfChar(c) ==
    CASE c = "U" -> 85 [] c = "a" -> 97 [] c = "b" -> 98 [] c = "d" -> 100
      [] c = "i" -> 105 [] c = "u" -> 117 [] c = "@" -> 0

CharOfByte(b) ==
    CASE b = 85 -> "U" [] b = 97 -> "a" [] b = 98 -> "b" [] b = 100 -> "d"
      [] b = 105 -> "i" [] b = 117 -> "u" [] b = 0 -> "@" [] OTHER -> "?"

\* []byte(s)
StrBytes(s) == [i \in 1..Len(s) |-> ByteOfChar(Char(s, i))]

\* string(buf[a..b])
RECURSIVE BytesStr(_, _, _)
BytesStr(buf, a, b) ==
    IF a > b THEN "" ELSE CharOfByte(buf[a]) \o BytesStr(buf, a + 1, b)

RECURSIVE EncodeVarint(_)
EncodeVarint(n) ==
    IF n < 128 THEN <<n>> ELSE <<(n % 128) + 128>> \o EncodeVarint(n \div 128)

\* the varint at buf[i]: its value and the index after it; not ok when the
\* buffer ends inside it (varints of the model fit four bytes)
RECURSIVE ReadVarintFrom(_, _, _, _)
ReadVarintFrom(buf, i, mul, acc) ==
    IF i > Len(buf) \/ mul > 2097152 THEN [ok |-> FALSE, val |-> 0, next |-> i]
    ELSE IF buf[i] < 128
         THEN [ok |-> TRUE, val |-> acc + buf[i] * mul, next |-> i + 1]
         ELSE ReadVarintFrom(buf, i + 1, mul * 128, acc + (buf[i] - 128) * mul)

ReadVarint(buf, i) == ReadVarintFrom(buf, i, 1, 0)

\* a fixed64: eight bytes, least significant first
Fixed64Bytes(x) ==
    <<x[4] % 256, x[4] \div 256, x[3] % 256, x[3] \div 256,
      x[2] % 256, x[2] \div 256, x[1] % 256, x[1] \div 256>>

Fixed64At(buf, i) ==
    <<buf[i + 7] * 256 + buf[i + 6], buf[i + 5] * 256 + buf[i + 4],
      buf[i + 3] * 256 + buf[i + 2], buf[i + 1] * 256 + buf[i]>>

Fixed64Field(num, x) ==
    IF x = ZeroU64 THEN <<>> ELSE <<num * 8 + 1>> \o Fixed64Bytes(x)

MapEntry(k, v) ==
    <<10>> \o EncodeVarint(Len(k)) \o StrBytes(k)
        \o <<18>> \o EncodeVarint(Len(v)) \o StrBytes(v)

RECURSIVE MapFields(_, _, _)
MapFields(m, keys, i) ==
    IF i > Len(keys) THEN <<>>
    ELSE LET e == MapEntry(keys[i], m[keys[i]]) IN
         <<42>> \o EncodeVarint(Len(e)) \o e \o MapFields(m, keys, i + 1)

\* proto.Marshal(&state), the map entries written in the order keys
Marshal(state, keys) ==
    Fixed64Field(1, state.TraceIdHi) \o Fixed64Field(2, state.TraceIdLo)
        \o Fixed64Field(3, state.SpanId)
        \o (IF state.Sampled THEN <<32, 1>> ELSE <<>>)
        \o MapFields(state.BaggageItems, keys, 1)

\* skipping an unknown field at buf[i]: the index after it
SkipWire(buf, i) ==
    LET tag == ReadVarint(buf, i)
        wireType == tag.val % 8
    IN  IF ~tag.ok THEN [ok |-> FALSE, next |-> i]
        ELSE CASE wireType = 0 ->
                    LET v == ReadVarint(buf, tag.next) IN [ok |-> v.ok, next |-> v.next]
               [] wireType = 1 -> [ok |-> TRUE, next |-> tag.next + 8]
               [] wireType = 2 ->
                    LET n == ReadVarint(buf, tag.next) IN
                    [ok |-> n.ok, next |-> n.next + n.val]
               [] wireType = 5 -> [ok |-> TRUE, next |-> tag.next + 4]
               [] OTHER -> [ok |-> FALSE, next |-> i]

\* a string field at buf[i]: its length, then its bytes
StringAt(buf, i) ==
    LET n == ReadVarint(buf, i) IN
    IF ~n.ok \/ n.next + n.val - 1 > Len(buf)
    THEN [ok |-> FALSE, str |-> "", next |-> i]
    ELSE [ok |-> TRUE, str |-> BytesStr(buf, n.next, n.next + n.val - 1),
          next |-> n.next + n.val]

\* the fields of one map entry, which ends before index post
RECURSIVE EntryFrom(_, _, _, _, _)
EntryFrom(buf, i, post, key, val) ==
    IF i >= post THEN [ok |-> TRUE, key |-> key, val |-> val]
    ELSE LET tag == ReadVarint(buf, i) IN
         IF ~tag.ok THEN [ok |-> FALSE, key |-> key, val |-> val]
         ELSE IF tag.val \div 8 \in {1, 2}
              THEN LET str == StringAt(buf, tag.next) IN
                   IF ~str.ok THEN [ok |-> FALSE, key |-> key, val |-> val]
                   ELSE IF tag.val \div 8 = 1
                        THEN EntryFrom(buf, str.next, post, str.str, val)
                        ELSE EntryFrom(buf, str.next, post, key, str.str)
              ELSE LET sk == SkipWire(buf, i) IN
                   IF ~sk.ok \/ sk.next > post
                   THEN [ok |-> FALSE, key |-> key, val |-> val]
                   ELSE EntryFrom(buf, sk.next, post, key, val)

TracerState0 ==
    [TraceIdHi |-> ZeroU64, TraceIdLo |-> ZeroU64, SpanId |-> ZeroU64,
     Sampled |-> FALSE, BaggageItems |-> EmptyMap]

Failed(st) == [ok |-> FALSE, state |-> st]

\* the field loop of TracerState.Unmarshal
RECURSIVE UnmarshalFrom(_, _, _)
UnmarshalFrom(buf, i, st) ==
    IF i > Len(buf) THEN [ok |-> TRUE, state |-> st]
    ELSE
    LET tag == ReadVarint(buf, i)
        fieldNum == tag.val \div 8
        wireType == tag.val % 8
        at == tag.next
    IN  IF ~tag.ok \/ wireType = 4 \/ fieldNum <= 0 THEN Failed(st)
        ELSE CASE fieldNum \in {1, 2, 3} ->
                    IF wireType # 1 \/ at + 8 - 1 > Len(buf) THEN Failed(st)
                    ELSE UnmarshalFrom(buf, at + 8,
                            CASE fieldNum = 1 -> [st EXCEPT !.TraceIdHi = Fixed64At(buf, at)]
                              [] fieldNum = 2 -> [st EXCEPT !.TraceIdLo = Fixed64At(buf, at)]
                              [] fieldNum = 3 -> [st EXCEPT !.SpanId = Fixed64At(buf, at)])
               [] fieldNum = 4 ->
                    LET v == ReadVarint(buf, at) IN
                    IF wireType # 0 \/ ~v.ok THEN Failed(st)
                    ELSE UnmarshalFrom(buf, v.next, [st EXCEPT !.Sampled = (v.val # 0)])
               [] fieldNum = 5 ->
                    LET n == ReadVarint(buf, at)
                        post == n.next + n.val
                    IN  IF wireType # 2 \/ ~n.ok \/ post - 1 > Len(buf) THEN Failed(st)
                        ELSE LET e == EntryFrom(buf, n.next, post, "", "") IN
                             IF ~e.ok THEN Failed(st)
                             ELSE UnmarshalFrom(buf, post,
                                    [st EXCEPT !.BaggageItems = MapPut(@, e.key, e.val)])
               [] OTHER ->
                    LET sk == SkipWire(buf, i) IN
                    IF ~sk.ok \/ sk.next - 1 > Len(buf) THEN Failed(st)
                    ELSE UnmarshalFrom(buf, sk.next, st)

\* proto.Unmarshal(buf, &ctx)
Unmarshal(buf) == UnmarshalFrom(buf, 1, TracerState0)

----------------------------------------------------------------------------
(* tracer/propagation_ot.go: the binary propagator.                        *)

\* binaryPropagator.Inject into an empty byte buffer: the length, then the
\* payload
BinaryInject(sc, keys) ==
    LET bytes == sc.TraceID
        state == [TraceIdHi |-> BigEndianUint64(SubSeq(bytes, 1, 8)),
                  TraceIdLo |-> BigEndianUint64(SubSeq(bytes, 9, 16)),
                  SpanId |-> sc.SpanID,
                  Sampled |-> sc.Sampled,
                  BaggageItems |-> sc.Baggage]
        b == Marshal(state, keys)
    IN  BigEndianPutUint32(Len(b)) \o b

Min(a, b) == IF a < b THEN a ELSE b

\* carrier.Read(buf) on a reader holding the bytes rest, buf being length
\* zero bytes: the reader copies what it holds, up to length bytes.  A
\* reader of kind "buffer" answers like bytes.Buffer: io.EOF only when it
\* holds nothing and length > 0; one of kind "strict" reports every short
\* read with an error.
CarrierRead(rest, length, kind) ==
    LET n == Min(Len(rest), length) IN
    [n |-> n,
     buf |-> [i \in 1..length |-> IF i <= n THEN rest[i] ELSE 0],
     err |-> IF kind = "buffer" THEN n = 0 /\ length > 0 ELSE n < length]

ReaderKinds == {"buffer", "strict"}

\* the 16 bytes of the trace id with the halves exchanged
TraceIdBytes_Swapped(hi, lo) == BigEndianPutUint64(lo) \o BigEndianPutUint64(hi)

\* traceIdBytes := make([]byte, 16); PutUint64(traceIdBytes[:8], ctx.TraceIdHi);
\* PutUint64(traceIdBytes[8:], ctx.TraceIdLo)
TraceIdBytes(hi, lo) == BigEndianPutUint64(hi) \o BigEndianPutUint64(lo)

\* a failed read answered with ErrSpanContextCorrupted whatever n is
ReadFailure_Corrupted(n) == "ErrSpanContextCorrupted"

\* if n > 0 { return nil, ErrSpanContextCorrupted }
\* return nil, ErrSpanContextNotFound
ReadFailure(n) ==
    IF n > 0 THEN "ErrSpanContextCorrupted" ELSE "ErrSpanContextNotFound"

\* binaryPropagator.Extract from a reader of the given kind over stream
BinaryExtract(stream, kind) ==
    IF Len(stream) < 4
    THEN [ctx |-> NilCtx, err |-> "ErrSpanContextCorrupted"]
    ELSE
    LET length == BigEndianUint32(SubSeq(stream, 1, 4))
        r == CarrierRead(SubSeq(stream, 5, Len(stream)), length, kind)
    IN  IF r.err
        THEN [ctx |-> NilCtx, err |-> ReadFailure(r.n)]
        ELSE LET u == Unmarshal(r.buf) IN
             IF ~u.ok THEN [ctx |-> NilCtx, err |-> "ErrSpanContextCorrupted"]
             ELSE [ctx |-> [TraceID |-> TraceIdBytes(u.state.TraceIdHi, u.state.TraceIdLo),
                            SpanID |-> u.state.SpanId,
                            Sampled |-> u.state.Sampled,
                            Baggage |-> u.state.BaggageItems],
                   err |-> "nil"]

\* Inject(sc, carrier) into a fresh buffer; proto.Marshal ranges over the
\* baggage map in some order
BinDoInject ==
    /\ bpc = "idle"
    /\ \E sc \in Contexts :
          /\ bctx' = sc
          /\ \E keys \in Orders(DOMAIN sc.Baggage) : bstream' = BinaryInject(sc, keys)
    /\ bpc' = "stream"
    /\ UNCHANGED <<bcut, breader, bres>>
    /\ UNCHANGED nonBinary

\* the stream loses its tail: the peer or the connection stops early
BinTruncate ==
    /\ bpc = "stream" /\ ~bcut
    /\ \E k \in 0..(Len(bstream) - 1) : bstream' = SubSeq(bstream, 1, k)
    /\ bcut' = TRUE
    /\ UNCHANGED <<bpc, bctx, breader, bres>>
    /\ UNCHANGED nonBinary

\* Extract(carrier), the carrier being a reader over the stream
BinDoExtract ==
    /\ bpc = "stream"
    /\ \E kind \in ReaderKinds :
          /\ breader' = kind
          /\ bres' = BinaryExtract(bstream, kind)
    /\ bpc' = "extracted"
    /\ UNCHANGED <<bctx, bstream, bcut>>
    /\ UNCHANGED nonBinary

BinInit ==
    /\ bpc = "idle"
    /\ bctx = NilCtx
    /\ bstream = <<>>
    /\ bcut = FALSE
    /\ breader = "none"
    /\ bres = NoResult

BinReset ==
    /\ bpc = "extracted"
    /\ bpc' = "idle"
    /\ bctx' = NilCtx
    /\ bstream' = <<>>
    /\ bcut' = FALSE
    /\ breader' = "none"
    /\ bres' = NoResult
    /\ UNCHANGED nonBinary

BinNext ==
    \/ BinDoInject
    \/ BinTruncate
    \/ BinDoExtract
    \/ BinReset

----------------------------------------------------------------------------
(* Properties of the binary propagator.                                    *)

\* the length the prefix of the stream announces, and the payload bytes the
\* stream holds
Announced == BigEndianUint32(SubSeq(bstream, 1, 4))
Supplied == Len(bstream) - 4

\* C2: Extract of the stream written by Inject(ctx) succeeds and returns
\* ctx: the same TraceID, SpanID, Sampled and Baggage, empty baggage
\* included.
C2_BinaryRoundTrip ==
    (bpc = "extracted" /\ ~bcut) => (bres.err = "nil" /\ bres.ctx = bctx)

C2_Witness ==
    /\ bpc = "extracted" /\ ~bcut
    /\ bctx.TraceID = TraceIdA /\ bctx.Sampled
    /\ bctx.Baggage = EmptyMap
    /\ bres.err = "nil" /\ bres.ctx = bctx

\* C6: Extract returns ErrSpanContextCorrupted when the stream supplies k
\* payload bytes, 0 < k < L, L being the length its prefix announces,
\* whether or not the reader reports the short read with an error.
C6_TruncatedCorrupted ==
    (bpc = "extracted" /\ Len(bstream) >= 4 /\ 0 < Supplied /\ Supplied < Announced)
        => bres.err = "ErrSpanContextCorrupted"

\* C14: Extract returns ErrSpanContextCorrupted and no SpanContext when the
\* stream holds fewer than the four bytes of the length, the empty stream
\* included, and ErrSpanContextNotFound and no SpanContext when the length
\* was read and the read of the payload fails with no byte read.
C14_PrefixAndEmptyPayload ==
    bpc = "extracted" =>
        /\ Len(bstream) < 4
              => bres = [ctx |-> NilCtx, err |-> "ErrSpanContextCorrupted"]
        /\ (/\ Len(bstream) >= 4
            /\ LET r == CarrierRead(SubSeq(bstream, 5, Len(bstream)), Announced, breader)
               IN  r.err /\ r.n = 0)
              => bres = [ctx |-> NilCtx, err |-> "ErrSpanContextNotFound"]

C14_Witness ==
    /\ bpc = "extracted"
    /\ Len(bstream) = 4 /\ Announced > 0
    /\ breader = "buffer"
    /\ bres = [ctx |-> NilCtx, err |-> "ErrSpanContextNotFound"]

----------------------------------------------------------------------------
(* tracer: the identifier generator.  seededIDGen.Int63() is a read of the *)
(* generator's state followed by a write of the advanced state; math/rand  *)
(* generators are not safe for concurrent use, so the two steps of one     *)
(* draw are separate steps of the caller.  An id is named by the position  *)
(* of the stream it was taken from.                                        *)

NumCallers == 2
MaxIds == 2

Callers == 1..NumCallers

\* the zero value of sync.Mutex
Unlocked == 0

\* the ids a call returns: randomID one, randomID2 two
Draws(op) == IF op = "randomID2" THEN 2 ELSE 1

\* a Lock that never waits
LockIsFree_Always(lock) == TRUE

\* seededIDLock.Lock() goes on only when nobody holds the mutex
LockIsFree(lock) == lock = Unlocked

GenInit ==
    /\ gpc = [c \in Callers |-> "idle"]
    /\ gop = [c \in Callers |-> "none"]
    /\ gleft = [c \in Callers |-> 0]
    /\ gpos = [c \in Callers |-> 0]
    /\ gout = [c \in Callers |-> <<>>]
    /\ seededIDGen = 0
    /\ seededIDLock = Unlocked

\* a goroutine calls randomID() or randomID2()
GenCall(c) ==
    /\ gpc[c] = "idle"
    /\ \E op \in {"randomID", "randomID2"} :
          /\ Len(gout[c]) + Draws(op) <= MaxIds
          /\ gop' = [gop EXCEPT ![c] = op]
          /\ gleft' = [gleft EXCEPT ![c] = Draws(op)]
    /\ gpc' = [gpc EXCEPT ![c] = "lock"]
    /\ UNCHANGED <<gpos, gout, seededIDGen, seededIDLock>>
    /\ UNCHANGED nonGenerator

\* seededIDLock.Lock()
GenLock(c) ==
    /\ gpc[c] = "lock"
    /\ LockIsFree(seededIDLock)
    /\ seededIDLock' = c
    /\ gpc' = [gpc EXCEPT ![c] = "read"]
    /\ UNCHANGED <<gop, gleft, gpos, gout, seededIDGen>>
    /\ UNCHANGED nonGenerator

\* seededIDGen.Int63(), first half: read the state of the source
GenRead(c) ==
    /\ gpc[c] = "read"
    /\ gpos' = [gpos EXCEPT ![c] = seededIDGen]
    /\ gpc' = [gpc EXCEPT ![c] = "advance"]
    /\ UNCHANGED <<gop, gleft, gout, seededIDGen, seededIDLock>>
    /\ UNCHANGED nonGenerator

\* seededIDGen.Int63(), second half: write the advanced state and take the
\* value; randomID2 draws a second time under the same lock
GenAdvance(c) ==
    /\ gpc[c] = "advance"
    /\ seededIDGen' = gpos[c] + 1
    /\ gout' = [gout EXCEPT ![c] = Append(@, gpos[c])]
    /\ gleft' = [gleft EXCEPT ![c] = @ - 1]
    /\ gpc' = [gpc EXCEPT ![c] = IF gleft[c] > 1 THEN "read" ELSE "unlock"]
    /\ UNCHANGED <<gop, gpos, seededIDLock>>
    /\ UNCHANGED nonGenerator

\* the deferred seededIDLock.Unlock(), then the return
GenUnlock(c) ==
    /\ gpc[c] = "unlock"
    /\ seededIDLock' = Unlocked
    /\ gpc' = [gpc EXCEPT ![c] = "idle"]
    /\ UNCHANGED <<gop, gleft, gpos, gout, seededIDGen>>
    /\ UNCHANGED nonGenerator

GenNext ==
    \/ \E c \in Callers : GenCall(c)
    \/ \E c \in Callers : GenLock(c)
    \/ \E c \in Callers : GenRead(c)
    \/ \E c \in Callers : GenAdvance(c)
    \/ \E c \in Callers : GenUnlock(c)

----------------------------------------------------------------------------
(* tracer: the seed of the identifier generator.  seededIDGen is a package *)
(* variable: generateSeed runs once, when the process starts, before any   *)
(* call of randomID or randomID2.                                          *)

\* binary.LittleEndian.Uint64(b[:]); int64(...) keeps the 64 bits
LittleEndianUint64(b) ==
    <<b[8] * 256 + b[7], b[6] * 256 + b[5], b[4] * 256 + b[3], b[2] * 256 + b[1]>>

\* var b [8]byte
ZeroBytes8 == <<0, 0, 0, 0, 0, 0, 0, 0>>

\* what cryptorand.Read(b[:]) may do: fill b, or return an error
CryptoReads ==
    {[err |-> FALSE, bytes |-> <<1, 2, 3, 4, 5, 6, 7, 8>>],
     [err |-> FALSE, bytes |-> <<255, 0, 0, 0, 0, 0, 0, 128>>],
     [err |-> TRUE, bytes |-> ZeroBytes8]}

\* time.Now().UnixNano()
ClockValues == {<<6000, 1, 2, 3>>, <<6000, 1, 2, 4>>}

\* a generateSeed that goes on with b after a failed read
generateSeed_NoFallback(read, now) ==
    [source |-> "crypto", value |-> LittleEndianUint64(read.bytes), logged |-> FALSE]

\* generateSeed(): the bytes read, or after a logged error the clock
generateSeed(read, now) ==
    IF read.err
    THEN [source |-> "clock", value |-> now, logged |-> TRUE]
    ELSE [source |-> "crypto", value |-> LittleEndianUint64(read.bytes),
          logged |-> FALSE]

\* the process has started with a successful read of the secure source
SeedInit ==
    /\ cryptoRead = [err |-> FALSE, bytes |-> <<1, 2, 3, 4, 5, 6, 7, 8>>]
    /\ clockNow = ZeroU64
    /\ seed = generateSeed(cryptoRead, clockNow)

\* a process starts: the package variables are initialised, seededIDGen
\* from generateSeed(), and no goroutine has called the generator yet
ProcessStart ==
    /\ \A c \in Callers : gpc[c] = "idle"
    /\ \E read \in CryptoReads, now \in ClockValues :
          /\ cryptoRead' = read
          /\ clockNow' = IF read.err THEN now ELSE ZeroU64
          /\ seed' = generateSeed(read, now)
    /\ gpc' = [c \in Callers |-> "idle"]
    /\ gop' = [c \in Callers |-> "none"]
    /\ gleft' = [c \in Callers |-> 0]
    /\ gpos' = [c \in Callers |-> 0]
    /\ gout' = [c \in Callers |-> <<>>]
    /\ seededIDGen' = 0
    /\ seededIDLock' = Unlocked
    /\ UNCHANGED nonProcess

SeedNext ==
    \/ ProcessStart
    \/ \E c \in Callers : GenCall(c)
    \/ \E c \in Callers : GenLock(c)
    \/ \E c \in Callers : GenRead(c)
    \/ \E c \in Callers : GenAdvance(c)
    \/ \E c \in Callers : GenUnlock(c)

\* C19: generateSeed returns the eight bytes read from the secure source,
\* first byte least significant, when the read succeeds, and the clock
\* value, after logging, when the read fails; and with either seed a call
\* of randomID or randomID2 that has returned has given its caller one or
\* two values.
C19_SeedNeverFails ==
    /\ ~cryptoRead.err =>
          /\ seed.source = "crypto" /\ ~seed.logged
          /\ \A i \in 1..8 : BigEndianPutUint64(seed.value)[9 - i] = cryptoRead.bytes[i]
    /\ cryptoRead.err =>
          /\ seed.source = "clock" /\ seed.logged
          /\ seed.value = clockNow /\ clockNow \in ClockValues
    /\ \A c \in Callers :
          (gpc[c] = "idle" /\ gop[c] # "none")
              => (gleft[c] = 0 /\ Len(gout[c]) >= Draws(gop[c]))

C19_Witness ==
    /\ cryptoRead.err
    /\ seed.source = "clock" /\ seed.logged
    /\ \A c \in Callers : gpc[c] = "idle" /\ Len(gout[c]) = MaxIds
    /\ \E c \in Callers : gop[c] = "randomID2"

----------------------------------------------------------------------------
(* instrumentation/nethttp: the client Transport.                          *)

\* http.StatusBadRequest
StatusBadRequest == 400

\* how many times the caller may close a response body
MaxCloses == 2

\* the header keys the tracer's Inject sets on an HTTPHeadersCarrier, in
\* the canonical form http.Header.Set gives them
InjectedHeaders ==
    {"Ot-Tracer-Traceid", "Ot-Tracer-Spanid", "Ot-Tracer-Sampled", "Traceparent"}

\* the transports an application may build
Transports ==
    [rt : {"nil", "custom"}, PayloadInstrumentation : BOOLEAN]

\* the requests an application may hand over; parent is what
\* opentracing.SpanFromContext(req.Context()) returns
Requests ==
    [parent : {"nil", "span"}, method : {"GET", "HEAD"},
     header : {{}, {"Accept"}}]

\* what the wrapped RoundTripper may return: a response with its status
\* and the wrappers around its body, or no response and an error
InnerResults ==
    {[resp |-> TRUE, status |-> 200, body |-> <<>>, err |-> "nil"],
     [resp |-> TRUE, status |-> 404, body |-> <<>>, err |-> "nil"],
     [resp |-> FALSE, status |-> 0, body |-> <<>>, err |-> "dial"]}

NoResponse == [resp |-> FALSE, status |-> 0, body |-> <<>>, err |-> "none"]
NoRequest == [parent |-> "nil", method |-> "GET", header |-> {}]
NoClientSpan == [started |-> FALSE, tags |-> {}, finished |-> FALSE]

\* a Transport that hands the request to its RoundTripper field as it is
RoundTripperOf_Field(t) == t.rt

\* rt := t.RoundTripper; if rt == nil { rt = http.DefaultTransport }
RoundTripperOf(t) == IF t.rt = "nil" THEN "DefaultTransport" ELSE t.rt

\* Tracer.start and the tags set before the request goes out
TagsBefore(t) ==
    {"span.kind", "component", "http.method", "http.url"}
    \cup (IF t.PayloadInstrumentation
          THEN {"http.request_payload"}
          ELSE {"http.request_payload.unavailable"})

\* the tags set once the wrapped RoundTripper has returned
TagsAfter(t, inner) ==
    (IF t.PayloadInstrumentation
     THEN {"http.response_payload"}
     ELSE {"http.response_payload.unavailable"})
    \cup (IF inner.err = "nil" THEN {"http.status_code", "peer.service"} ELSE {})
    \cup (IF inner.err = "nil" /\ inner.status >= StatusBadRequest
          THEN {"error"} ELSE {})

\* getResponsePayload puts the bytes it read back in front of the body
AfterPayload(t, inner) ==
    IF t.PayloadInstrumentation /\ inner.resp
    THEN [inner EXCEPT !.body = <<"replay">> \o @]
    ELSE inner

\* doRoundTrip after TraceRequest has put a Tracer in the context
doRoundTrip(t, req, inner) ==
    LET resp == AfterPayload(t, inner)
    IN  [called |-> RoundTripperOf(t),
         sent |-> [req EXCEPT !.header = @ \cup InjectedHeaders],
         result |-> IF inner.err # "nil" \/ req.method = "HEAD"
                    THEN resp
                    ELSE [resp EXCEPT !.body = <<"closeTracker">> \o @],
         span |-> [started |-> TRUE,
                   tags |-> TagsBefore(t) \cup TagsAfter(t, inner),
                   finished |-> inner.err # "nil" \/ req.method = "HEAD"]]

\* Transport.RoundTrip
RoundTrip(t, req, inner) ==
    IF req.parent = "nil"
    THEN [called |-> RoundTripperOf(t), sent |-> req, result |-> inner,
          span |-> NoClientSpan]
    ELSE doRoundTrip(t, req, inner)

HttpInit ==
    /\ hpc = "idle"
    /\ htransport = [rt |-> "nil", PayloadInstrumentation |-> FALSE]
    /\ hreq = NoRequest
    /\ hcalled = "none"
    /\ hsent = NoRequest
    /\ hinner = NoResponse
    /\ hresult = NoResponse
    /\ hspan = NoClientSpan
    /\ hcloses = 0
    /\ hfinishes = 0

\* the application builds a Transport and a request
HttpNewRequest ==
    /\ hpc = "idle"
    /\ \E t \in Transports, req \in Requests :
          /\ htransport' = t
          /\ hreq' = req
    /\ hpc' = "ready"
    /\ UNCHANGED <<hcalled, hsent, hinner, hresult, hspan, hcloses, hfinishes>>
    /\ UNCHANGED nonHttp

\* the http.Client calls Transport.RoundTrip
HttpRoundTrip ==
    /\ hpc = "ready"
    /\ \E inner \in InnerResults :
          LET out == RoundTrip(htransport, hreq, inner)
          IN  /\ hinner' = inner
              /\ hcalled' = out.called
              /\ hsent' = out.sent
              /\ hresult' = out.result
              /\ hspan' = out.span
              /\ hfinishes' = IF out.span.finished THEN 1 ELSE 0
    /\ hpc' = "done"
    /\ UNCHANGED <<htransport, hreq, hcloses>>
    /\ UNCHANGED nonHttp

\* the caller closes the body of the response it was given; a body
\* wrapped by doRoundTrip is a closeTracker, whose Close closes the body
\* below it, logs "ClosedBody" and calls sp.Finish()
HttpCloseBody ==
    /\ hpc = "done"
    /\ hresult.resp
    /\ hcloses < MaxCloses
    /\ hcloses' = hcloses + 1
    /\ IF hresult.body # <<>> /\ Head(hresult.body) = "closeTracker"
       THEN /\ hfinishes' = hfinishes + 1
            /\ hspan' = [hspan EXCEPT !.finished = TRUE]
       ELSE UNCHANGED <<hfinishes, hspan>>
    /\ UNCHANGED <<hpc, htransport, hreq, hcalled, hsent, hinner, hresult>>
    /\ UNCHANGED nonHttp

HttpReset ==
    /\ hpc = "done"
    /\ hpc' = "idle"
    /\ htransport' = [rt |-> "nil", PayloadInstrumentation |-> FALSE]
    /\ hreq' = NoRequest
    /\ hcalled' = "none"
    /\ hsent' = NoRequest
    /\ hinner' = NoResponse
    /\ hresult' = NoResponse
    /\ hspan' = NoClientSpan
    /\ hcloses' = 0
    /\ hfinishes' = 0
    /\ UNCHANGED nonHttp

HttpNext == HttpNewRequest \/ HttpRoundTrip \/ HttpCloseBody \/ HttpReset

\* C21: over a traced round trip and whatever follows it (transport error,
\* HEAD response, any number of Close calls on the returned body), Finish
\* is called at most once on the client span.
C21_FinishAtMostOnce ==
    hfinishes <= 1

\* the client span of a GET was finished by each of two Close calls
C21_Witness ==
    /\ hpc = "done" /\ hreq.parent = "span" /\ hreq.method = "GET"
    /\ hinner.err = "nil"
    /\ hcloses = 2 /\ hfinishes = 2

\* C20: when the request's context carries no active span, RoundTrip hands
\* the request, with its header as it was, to the wrapped RoundTripper
\* (http.DefaultTransport when the field is nil) and returns what that
\* returned; no span is started, no tag set, no trace header added.
C20_UntracedPassThrough ==
    (hpc = "done" /\ hreq.parent = "nil") =>
        /\ htransport.rt = "nil" => hcalled = "DefaultTransport"
        /\ htransport.rt # "nil" => hcalled = htransport.rt
        /\ hsent = hreq
        /\ hsent.header \cap InjectedHeaders = {}
        /\ hresult = hinner
        /\ ~hspan.started /\ hspan.tags = {} /\ ~hspan.finished

C20_Witness ==
    /\ hpc = "done" /\ hreq.parent = "nil"
    /\ htransport.rt = "nil" /\ htransport.PayloadInstrumentation
    /\ hcalled = "DefaultTransport"
    /\ hresult.resp /\ hresult.status = 404 /\ hresult.body = <<>>

----------------------------------------------------------------------------
(* ast: GetFuncSource and its cache of function boundaries.                *)

\* the source files a pc may belong to
SourceFiles == {"a.go", "b.go", "gone.go"}

\* parser.ParseFile(fSet, mFile, nil, 0): the functions declared in the
\* file, or an error for a file that cannot be read or parsed
ParseFile(file) ==
    CASE file = "a.go" -> [err |-> FALSE, names |-> {"F", "G"}]
      [] file = "b.go" -> [err |-> FALSE, names |-> {"H"}]
      [] OTHER -> [err |-> TRUE, names |-> {}]

\* runtime.FuncForPC(pc): the functions a caller may ask about
Functions ==
    {[file |-> "a.go", name |-> "F"], [file |-> "a.go", name |-> "G"],
     [file |-> "b.go", name |-> "H"], [file |-> "gone.go", name |-> "K"]}

NoFunction == [file |-> "a.go", name |-> "none"]
NilFiles == [f \in SourceFiles |-> [made |-> FALSE, names |-> {}]]

\* methodCodes[mFile][name] on the cache as it stands
Lookup(fn) ==
    IF methodCodes.made /\ methodCodes.files[fn.file].made
          /\ fn.name \in methodCodes.files[fn.file].names
    THEN fn.name
    ELSE "nil"

SourcesInit ==
    /\ srcPc = [c \in Callers |-> "idle"]
    /\ srcFunc = [c \in Callers |-> NoFunction]
    /\ srcRes = [c \in Callers |-> "none"]
    /\ mutex = Unlocked
    /\ methodCodes = [made |-> FALSE, files |-> NilFiles]
    /\ srcFatal = FALSE

\* GetFuncSource(pc): FuncForPC and FileLine
SrcCall(c) ==
    /\ ~srcFatal
    /\ srcPc[c] = "idle"
    /\ \E fn \in Functions : srcFunc' = [srcFunc EXCEPT ![c] = fn]
    /\ srcPc' = [srcPc EXCEPT ![c] = "lock"]
    /\ srcRes' = [srcRes EXCEPT ![c] = "none"]
    /\ UNCHANGED <<mutex, methodCodes, srcFatal>>
    /\ UNCHANGED nonSources

\* mutex.Lock()
SrcLock(c) ==
    /\ ~srcFatal
    /\ srcPc[c] = "lock"
    /\ mutex = Unlocked
    /\ mutex' = c
    /\ srcPc' = [srcPc EXCEPT ![c] = "check"]
    /\ UNCHANGED <<srcFunc, srcRes, methodCodes, srcFatal>>
    /\ UNCHANGED nonSources

\* the two nil tests; on a miss the file's map is made and the file parsed,
\* and a parse error returns nil before mutex.Unlock() is reached
SrcCheck(c) ==
    /\ ~srcFatal
    /\ srcPc[c] = "check"
    /\ LET file == srcFunc[c].file
           parsed == ParseFile(file)
       IN  IF methodCodes.made /\ methodCodes.files[file].made
           THEN /\ srcPc' = [srcPc EXCEPT ![c] = "unlock"]
                /\ UNCHANGED <<methodCodes, srcRes, mutex>>
           ELSE /\ methodCodes' =
                      [made |-> TRUE,
                       files |-> [methodCodes.files EXCEPT
                                     ![file] = [made |-> TRUE, names |-> {}]]]
                /\ IF parsed.err
                   THEN /\ srcPc' = [srcPc EXCEPT ![c] = "idle"]
                        /\ srcRes' = [srcRes EXCEPT ![c] = "nil"]
                        /\ UNCHANGED mutex
                   ELSE /\ srcPc' = [srcPc EXCEPT ![c] = "fill"]
                        /\ UNCHANGED <<srcRes, mutex>>
    /\ UNCHANGED <<srcFunc, srcFatal>>
    /\ UNCHANGED nonSources

\* the loop over f.Decls: methodCodes[mFile][methodCode.Name] = &methodCode
SrcFill(c) ==
    /\ ~srcFatal
    /\ srcPc[c] = "fill"
    /\ LET file == srcFunc[c].file
       IN  methodCodes' =
              [methodCodes EXCEPT
                  !.files[file] = [made |-> TRUE, names |-> ParseFile(file).names]]
    /\ srcPc' = [srcPc EXCEPT ![c] = "unlock"]
    /\ UNCHANGED <<srcFunc, srcRes, mutex, srcFatal>>
    /\ UNCHANGED nonSources

\* mutex.Unlock()
SrcUnlock(c) ==
    /\ ~srcFatal
    /\ srcPc[c] = "unlock"
    /\ mutex' = Unlocked
    /\ srcPc' = [srcPc EXCEPT ![c] = "read"]
    /\ UNCHANGED <<srcFunc, srcRes, methodCodes, srcFatal>>
    /\ UNCHANGED nonSources

\* another goroutine is between its first and its last write of the cache
Writing(d) == srcPc[d] = "fill"

\* return methodCodes[mFile][funcNameParts[1]]; a map read that runs
\* while another goroutine writes the map is a data race: the read may
\* find the entry, miss it, or the runtime may stop the process
SrcReturn(c) ==
    /\ ~srcFatal
    /\ srcPc[c] = "read"
    /\ srcPc' = [srcPc EXCEPT ![c] = "idle"]
    /\ IF \E d \in Callers \ {c} : Writing(d)
       THEN \/ /\ srcRes' = [srcRes EXCEPT ![c] = Lookup(srcFunc[c])]
               /\ UNCHANGED srcFatal
            \/ /\ srcRes' = [srcRes EXCEPT ![c] = "nil"]
               /\ UNCHANGED srcFatal
            \/ /\ srcFatal' = TRUE
               /\ UNCHANGED srcRes
       ELSE /\ srcRes' = [srcRes EXCEPT ![c] = Lookup(srcFunc[c])]
            /\ UNCHANGED srcFatal
    /\ UNCHANGED <<srcFunc, mutex, methodCodes>>
    /\ UNCHANGED nonSources

SourcesNext ==
    \/ \E c \in Callers : SrcCall(c)
    \/ \E c \in Callers : SrcLock(c)
    \/ \E c \in Callers : SrcCheck(c)
    \/ \E c \in Callers : SrcFill(c)
    \/ \E c \in Callers : SrcUnlock(c)
    \/ \E c \in Callers : SrcReturn(c)

\* C22: a goroutine that has returned from GetFuncSource does not hold the
\* package mutex, whichever path it returned on, so a later call can
\* always take it.
C22_MutexReleasedOnReturn ==
    \A c \in Callers : srcPc[c] = "idle" => mutex # c

\* a call returned nil for a file that does not parse and kept the mutex,
\* and another goroutine waits for it
C22_Witness ==
    \E c \in Callers, d \in Callers :
        /\ c # d
        /\ srcPc[c] = "idle" /\ srcRes[c] = "nil" /\ ParseFile(srcFunc[c].file).err
        /\ mutex = c
        /\ srcPc[d] = "lock"

\* a goroutine is at a statement that reads or writes methodCodes
AccessesCache(c) == srcPc[c] \in {"check", "fill", "read"}

\* C23: a goroutine reads or writes methodCodes only while it holds the
\* package mutex, so no goroutine reads the cache while another writes it.
C23_CacheAccessLocked ==
    /\ \A c \in Callers : AccessesCache(c) => mutex = c
    /\ \A c \in Callers, d \in Callers :
          ~(c # d /\ srcPc[c] = "read" /\ Writing(d))

\* a goroutine is about to read the cache after its Unlock while another
\* one, holding the mutex, is writing it
C23_Witness ==
    \E c \in Callers, d \in Callers :
        /\ c # d
        /\ srcPc[c] = "read" /\ mutex = d /\ Writing(d)

----------------------------------------------------------------------------
(* instrumentation/testing: the replacement of testing.T.Run installed by  *)
(* Init.  The patch is one per process; tests that called t.Parallel() run *)
(* in goroutines of their own and share it.                                *)

\* how deep sub-tests nest, and how often one call may enter the replacement
MaxDepth == 2
MaxWraps == 2

\* one t.Run(name, f) call: where it stands, how many instrumenting
\* closures are around f, and how often a test was started and ended for
\* it and f was run
NewRun == [pc |-> "call", wraps |-> 0, starts |-> 0, ends |-> 0, ran |-> 0]

Top(c) == Head(runStack[c])
SetTop(c, frame) == [runStack EXCEPT ![c] = <<frame>> \o Tail(@)]
InRun(c, pc) == runStack[c] # <<>> /\ Top(c).pc = pc

\* where a call of t.Run lands: in the replacement while the patch is in
\* place, in the original testing.T.Run otherwise
Dispatch(isPatched) == IF isPatched THEN "unpatch" ELSE "child"

PatchInit ==
    /\ patched = TRUE
    /\ runStack = [c \in Callers |-> <<>>]

\* a test, or the body of a sub-test, calls t.Run(name, f)
RunCall(c) ==
    /\ \/ runStack[c] = <<>>
       \/ InRun(c, "body") /\ Len(runStack[c]) < MaxDepth
    /\ runStack' = [runStack EXCEPT
                       ![c] = <<[NewRun EXCEPT !.pc = Dispatch(patched)]>> \o @]
    /\ UNCHANGED patched
    /\ UNCHANGED nonPatch

\* the replacement: logOnError(runPatch.Unpatch()); defer runPatch.Patch()
RunUnpatch(c) ==
    /\ InRun(c, "unpatch")
    /\ patched' = FALSE
    /\ runStack' = SetTop(c, [Top(c) EXCEPT !.pc = "rerun"])
    /\ UNCHANGED nonPatch

\* the replacement: return t.Run(name, func(childT) {...}), which lands
\* wherever the patch now sends it
RunRerun(c) ==
    /\ InRun(c, "rerun")
    /\ Top(c).wraps < MaxWraps
    /\ runStack' = SetTop(c, [Top(c) EXCEPT !.pc = Dispatch(patched),
                                            !.wraps = @ + 1])
    /\ UNCHANGED patched
    /\ UNCHANGED nonPatch

\* the closure in the child: runPatch.Patch(), addAutoInstrumentedTest,
\* StartTestFromCaller, defer childTest.end(), and then what it wraps
RunClosure(c) ==
    /\ InRun(c, "child")
    /\ Top(c).starts < Top(c).wraps
    /\ patched' = TRUE
    /\ runStack' = SetTop(c, [Top(c) EXCEPT !.starts = @ + 1])
    /\ UNCHANGED nonPatch

\* f(childT) begins
RunBody(c) ==
    /\ InRun(c, "child")
    /\ Top(c).starts = Top(c).wraps
    /\ runStack' = SetTop(c, [Top(c) EXCEPT !.pc = "body"])
    /\ UNCHANGED patched
    /\ UNCHANGED nonPatch

\* f(childT) returns and the deferred childTest.end() of every closure runs
RunEnd(c) ==
    /\ InRun(c, "body")
    /\ runStack' = SetTop(c, [Top(c) EXCEPT !.pc = "repatch", !.ran = @ + 1,
                                            !.ends = Top(c).starts])
    /\ UNCHANGED patched
    /\ UNCHANGED nonPatch

\* testing.T.Run returns; the deferred runPatch.Patch() of every
\* replacement the call went through runs
RunRepatch(c) ==
    /\ InRun(c, "repatch")
    /\ patched' = IF Top(c).wraps > 0 THEN TRUE ELSE patched
    /\ runStack' = SetTop(c, [Top(c) EXCEPT !.pc = "done"])
    /\ UNCHANGED nonPatch

\* t.Run has returned to its caller
RunReturn(c) ==
    /\ InRun(c, "done")
    /\ runStack' = [runStack EXCEPT ![c] = Tail(@)]
    /\ UNCHANGED patched
    /\ UNCHANGED nonPatch

PatchNext ==
    \/ \E c \in Callers : RunCall(c)
    \/ \E c \in Callers : RunUnpatch(c)
    \/ \E c \in Callers : RunRerun(c)
    \/ \E c \in Callers : RunClosure(c)
    \/ \E c \in Callers : RunBody(c)
    \/ \E c \in Callers : RunEnd(c)
    \/ \E c \in Callers : RunRepatch(c)
    \/ \E c \in Callers : RunReturn(c)

\* C24: every t.Run(name, f) call that has completed ran f once, inside
\* one instrumented child test: one test started and one ended.
C24_RunInstrumentedOnce ==
    \A c \in Callers :
        InRun(c, "done") =>
            Top(c).ran = 1 /\ Top(c).starts = 1 /\ Top(c).ends = 1

----------------------------------------------------------------------------
(* scopeagent: package init, Run and the panic handler of StartTest.  The  *)
(* sources hold two texts of this file: one tests GlobalAgent before each  *)
(* use ("guarded"), the other does not and returns from init when          *)
(* NewAgent succeeded ("unguarded").                                       *)

Builds == {"guarded", "unguarded"}

\* what init meets: whether agent.NewAgent() fails, and the two
\* environment switches, both true when unset
InitInputs == [err : BOOLEAN, setTracer : BOOLEAN, autoInstrument : BOOLEAN]

\* the exit codes m.Run may return
ExitCodes == {0, 1, 2}
NoCode == 0 - 1

NothingDone == [tracer |-> FALSE, patched |-> FALSE]

\* agent.NewAgent(): (agent, nil) or (nil, err)
NewAgent(in) == IF in.err THEN "nil" ELSE "agent"

\* whether init returns right after NewAgent
InitReturnsEarly(build, in) ==
    IF build = "guarded" THEN in.err ELSE ~in.err

\* func init()
PackageInit(build, in) ==
    IF InitReturnsEarly(build, in)
    THEN [agent |-> "nil", done |-> NothingDone, nilUse |-> FALSE]
    ELSE LET a == NewAgent(in)
         IN  IF a = "nil" /\ in.setTracer
             THEN [agent |-> a, done |-> NothingDone, nilUse |-> TRUE]
             ELSE [agent |-> a,
                   done |-> [tracer |-> in.setTracer, patched |-> in.autoInstrument],
                   nilUse |-> FALSE]

AgentInit ==
    /\ agPc = "load"
    /\ agBuild = "guarded"
    /\ agInput = [err |-> FALSE, setTracer |-> TRUE, autoInstrument |-> TRUE]
    /\ GlobalAgent = "nil"
    /\ agDone = NothingDone
    /\ agNilUse = FALSE
    /\ agViaRun = FALSE
    /\ agMResult = NoCode
    /\ agResult = NoCode
    /\ agStopped = "no"
    /\ agHandler = "none"

\* the test binary is loaded and the package's init runs
AgentLoad ==
    /\ agPc = "load"
    /\ \E build \in Builds, in \in InitInputs :
          LET out == PackageInit(build, in)
          IN  /\ agBuild' = build
              /\ agInput' = in
              /\ GlobalAgent' = out.agent
              /\ agDone' = out.done
              /\ agNilUse' = out.nilUse
              /\ agPc' = IF out.nilUse THEN "crashed" ELSE "ready"
    /\ UNCHANGED <<agViaRun, agMResult, agResult, agStopped, agHandler>>
    /\ UNCHANGED nonAgent

\* TestMain calls scopeagent.Run(m), or the tests run under plain m.Run;
\* the unguarded Run is GlobalAgent.Run(m)
AgentRunBegin ==
    /\ agPc = "ready"
    /\ \E viaRun \in BOOLEAN :
          /\ agViaRun' = viaRun
          /\ IF viaRun /\ agBuild = "unguarded" /\ GlobalAgent = "nil"
             THEN agNilUse' = TRUE /\ agPc' = "crashed"
             ELSE agNilUse' = agNilUse /\ agPc' = "tests"
    /\ UNCHANGED <<agBuild, agInput, GlobalAgent, agDone, agMResult, agResult,
                   agStopped, agHandler>>
    /\ UNCHANGED nonAgent

\* a test started with scopeagent.StartTest panics: Test.End calls the
\* handler and raises the panic again, which ends the process
AgentTestPanics ==
    /\ agPc = "tests"
    /\ IF GlobalAgent # "nil"
       THEN agHandler' = "flushed" /\ UNCHANGED agNilUse
       ELSE IF agBuild = "guarded"
            THEN agHandler' = "nothing" /\ UNCHANGED agNilUse
            ELSE agHandler' = "flushed" /\ agNilUse' = TRUE
    /\ agPc' = "crashed"
    /\ UNCHANGED <<agBuild, agInput, GlobalAgent, agDone, agViaRun, agMResult,
                   agResult, agStopped>>
    /\ UNCHANGED nonAgent

\* m.Run returns; under scopeagent.Run the agent is stopped and the
\* result handed on
AgentRunEnd ==
    /\ agPc = "tests"
    /\ \E code \in ExitCodes :
          /\ agMResult' = code
          /\ agResult' = IF agViaRun THEN code ELSE NoCode
    /\ agStopped' = IF agViaRun /\ GlobalAgent # "nil" THEN "late" ELSE agStopped
    /\ agPc' = "exited"
    /\ UNCHANGED <<agBuild, agInput, GlobalAgent, agDone, agNilUse, agViaRun,
                   agHandler>>
    /\ UNCHANGED nonAgent

\* the next test binary
AgentRestart ==
    /\ agPc \in {"exited", "crashed"}
    /\ agPc' = "load"
    /\ agBuild' = "guarded"
    /\ agInput' = [err |-> FALSE, setTracer |-> TRUE, autoInstrument |-> TRUE]
    /\ GlobalAgent' = "nil"
    /\ agDone' = NothingDone
    /\ agNilUse' = FALSE
    /\ agViaRun' = FALSE
    /\ agMResult' = NoCode
    /\ agResult' = NoCode
    /\ agStopped' = "no"
    /\ agHandler' = "none"
    /\ UNCHANGED nonAgent

AgentNext ==
    AgentLoad \/ AgentRunBegin \/ AgentTestPanics \/ AgentRunEnd \/ AgentRestart

\* C25: no method is ever called on a nil GlobalAgent.  When NewAgent
\* failed, GlobalAgent is nil, nothing was patched, Run still returns
\* m.Run's result and the panic handler does nothing; when it succeeded,
\* the agent is set, Run stops it only after m.Run has returned and
\* returns m.Run's result.
C25_NoNilGlobalAgent ==
    /\ ~agNilUse
    /\ (agPc # "load" /\ agInput.err) =>
          /\ GlobalAgent = "nil" /\ agDone = NothingDone
          /\ agHandler \in {"none", "nothing"}
          /\ agStopped = "no"
    /\ (agPc # "load" /\ ~agInput.err) =>
          /\ GlobalAgent = "agent"
          /\ agStopped # "early"
          /\ (agPc = "exited" /\ agViaRun) => agStopped = "late"
    /\ (agPc = "exited" /\ agViaRun) => agResult = agMResult /\ agMResult \in ExitCodes

\* the unguarded build ran its tests under scopeagent.Run after NewAgent
\* had succeeded
C25_Witness ==
    /\ agPc = "crashed" /\ agBuild = "unguarded" /\ ~agInput.err
    /\ agViaRun /\ GlobalAgent = "nil" /\ agNilUse

----------------------------------------------------------------------------
(* instrumentation/testing: Test.End.  The sources hold two texts of it,   *)
(* which differ in the status of a panicked test: "FAIL" or "ERROR".       *)

EndBuilds == {"FAIL", "ERROR"}

\* what a deferred End may recover: nothing, or the value of the panic
PanicValues == {"none", "boom", "nil map", "index"}

\* the test as End finds it: recover(), t.Failed(), t.Skipped() and
\* whether an onPanicHandler was given
TestsAtEnd ==
    [panic : PanicValues, failed : BOOLEAN, skipped : BOOLEAN, handler : BOOLEAN]

NoTest == [panic |-> "none", failed |-> FALSE, skipped |-> FALSE, handler |-> FALSE]

Ev(op, key, val) == [op |-> op, key |-> key, val |-> val]
SetTag(key, val) == Ev("SetTag", key, val)

\* an End that asks t.Skipped() before t.Failed()
EndBranch_SkippedFirst(test) ==
    IF test.panic # "none" THEN "panic"
    ELSE IF test.skipped THEN "skipped"
    ELSE IF test.failed THEN "failed"
    ELSE "passed"

\* the branch End takes: recover() first, then Failed, then Skipped
EndBranch(test) ==
    IF test.panic # "none" THEN "panic"
    ELSE IF test.failed THEN "failed"
    ELSE IF test.skipped THEN "skipped"
    ELSE "passed"

\* func (test *Test) End()
End(build, test) ==
    LET branch == EndBranch(test) IN
    CASE branch = "panic" ->
            <<Ev("stopCapturingLogs", "", ""),
              SetTag("test.status", build),
              SetTag("error", "true"),
              Ev("LogError", "", test.panic),
              Ev("Finish", "", "")>>
            \o (IF test.handler THEN <<Ev("onPanicHandler", "", "")>> ELSE <<>>)
            \o <<Ev("panic", "", test.panic)>>
      [] branch = "failed" ->
            <<SetTag("test.status", "FAIL"),
              SetTag("error", "true"),
              Ev("LogFields", "", "test_failure"),
              Ev("stopCapturingLogs", "", ""),
              Ev("Finish", "", "")>>
      [] branch = "skipped" ->
            <<SetTag("test.status", "SKIP"),
              Ev("LogFields", "", "test_skip"),
              Ev("stopCapturingLogs", "", ""),
              Ev("Finish", "", "")>>
      [] OTHER ->
            <<SetTag("test.status", "PASS"),
              Ev("stopCapturingLogs", "", ""),
              Ev("Finish", "", "")>>

EndInit ==
    /\ endPc = "idle"
    /\ endBuild = "FAIL"
    /\ endTest = NoTest
    /\ endEvents = <<>>

\* StartTest(t, opts...), with or without WithOnPanicHandler
EndStartTest ==
    /\ endPc = "idle"
    /\ \E build \in EndBuilds, h \in BOOLEAN :
          /\ endBuild' = build
          /\ endTest' = [NoTest EXCEPT !.handler = h]
    /\ endPc' = "started"
    /\ UNCHANGED endEvents
    /\ UNCHANGED nonEnd

\* the body of the test runs: it may fail, skip, both, or panic
EndTestBody ==
    /\ endPc = "started"
    /\ \E t \in TestsAtEnd :
          /\ t.handler = endTest.handler
          /\ endTest' = t
    /\ endPc' = "ran"
    /\ UNCHANGED <<endBuild, endEvents>>
    /\ UNCHANGED nonEnd

\* the deferred test.End()
EndEnd ==
    /\ endPc = "ran"
    /\ endEvents' = End(endBuild, endTest)
    /\ endPc' = "ended"
    /\ UNCHANGED <<endBuild, endTest>>
    /\ UNCHANGED nonEnd

EndReset ==
    /\ endPc = "ended"
    /\ endPc' = "idle"
    /\ endBuild' = "FAIL"
    /\ endTest' = NoTest
    /\ endEvents' = <<>>
    /\ UNCHANGED nonEnd

EndNext == EndStartTest \/ EndTestBody \/ EndEnd \/ EndReset

\* the positions in the events of End where op was done
At(op) == {i \in 1..Len(endEvents) : endEvents[i].op = op}

\* the values End gave the tag key
TagValues(key) ==
    {endEvents[i].val : i \in {j \in At("SetTag") : endEvents[j].key = key}}

\* C27: End sets test.status once and finishes the span once.  The status
\* is that of a panicked test when a panic was recovered, else FAIL when
\* the test failed, else SKIP when it was skipped, else PASS; error=true
\* is set exactly for a panic or a failure; after a panic the span is
\* finished before the handler is called, and the last thing End does is
\* to panic again with the value recovered.
C27_OneStatusOneFinish ==
    endPc = "ended" =>
        /\ Cardinality({i \in At("SetTag") : endEvents[i].key = "test.status"}) = 1
        /\ Cardinality(At("Finish")) = 1
        /\ endTest.panic # "none" =>
              /\ TagValues("test.status") \subseteq EndBuilds
              /\ At("onPanicHandler") # {} <=> endTest.handler
              /\ \A f \in At("Finish"), h \in At("onPanicHandler") : f < h
              /\ endEvents[Len(endEvents)] = Ev("panic", "", endTest.panic)
              /\ \A f \in At("Finish") : f < Len(endEvents)
        /\ endTest.panic = "none" =>
              /\ At("panic") = {} /\ At("onPanicHandler") = {}
              /\ endTest.failed => TagValues("test.status") = {"FAIL"}
              /\ (~endTest.failed /\ endTest.skipped) =>
                    TagValues("test.status") = {"SKIP"}
              /\ (~endTest.failed /\ ~endTest.skipped) =>
                    TagValues("test.status") = {"PASS"}
        /\ TagValues("error") =
              IF endTest.panic # "none" \/ endTest.failed THEN {"true"} ELSE {}

\* a test that failed and then skipped ends as FAIL; one that panicked
\* with a handler set is another case, reached as well
C27_Witness ==
    /\ endPc = "ended"
    /\ endTest.panic = "none" /\ endTest.failed /\ endTest.skipped
    /\ TagValues("test.status") = {"FAIL"}
    /\ Cardinality(At("Finish")) = 1

----------------------------------------------------------------------------
(* instrumentation/testing: Init wraps the tests of testing.M.             *)

MaxTests == 3
TestNames == {"TestA", "TestB", "TestC"}

\* a test function of the binary: the original of the test called name
Original(name) == [kind |-> "original", fn |-> name]

\* the lists of tests a binary may hold: distinct names, each with its
\* own function
RECURSIVE TestLists(_)
TestLists(n) ==
    IF n = 0 THEN {<<>>}
    ELSE LET shorter == TestLists(n - 1) IN
         shorter \cup
         {Append(l, [Name |-> nm, F |-> Original(nm)]) :
             l \in {x \in shorter : Len(x) = n - 1},
             nm \in TestNames}

DistinctNames(l) == \A i \in 1..Len(l), j \in 1..Len(l) : i # j => l[i].Name # l[j].Name

\* a loop whose closures all see the function of the last test
funcValue_Shared(tests, i) == tests[Len(tests)].F

\* funcValue := test.F, once per iteration of the range loop
funcValue(tests, i) == tests[i].F

\* the loop of Init: for each test an InternalTest of the same Name whose
\* F is the closure around funcValue
WrapTests(tests) ==
    [i \in 1..Len(tests) |->
        [Name |-> tests[i].Name,
         F |-> [kind |-> "wrapper", fn |-> funcValue(tests, i).fn]]]

WrapInit ==
    /\ wPc = "load"
    /\ wOrig = <<>>
    /\ wTests = <<>>
    /\ wIdx = 0
    /\ wStep = "idle"
    /\ wLog = <<>>

\* the test binary starts with its list of tests
WrapLoad ==
    /\ wPc = "load"
    /\ \E l \in TestLists(MaxTests) :
          /\ DistinctNames(l)
          /\ wOrig' = l
          /\ wTests' = l
    /\ wPc' = "loaded"
    /\ UNCHANGED <<wIdx, wStep, wLog>>
    /\ UNCHANGED nonWrap

\* Init(m): *intTests = tests
WrapInitM ==
    /\ wPc = "loaded"
    /\ wTests' = WrapTests(wTests)
    /\ wPc' = "wrapped"
    /\ UNCHANGED <<wOrig, wIdx, wStep, wLog>>
    /\ UNCHANGED nonWrap

LogEv(ev, name, fn) == [ev |-> ev, name |-> name, fn |-> fn]

\* m.Run calls the F of the next test with a t of the test's Name: the
\* closure does addAutoInstrumentedTest and StartTestFromCaller and
\* defers tStruct.end()
WrapStart ==
    /\ wPc = "wrapped"
    /\ wStep = "idle"
    /\ wIdx < Len(wTests)
    /\ wIdx' = wIdx + 1
    /\ wStep' = "started"
    /\ wLog' = Append(wLog, LogEv("start", wTests[wIdx + 1].Name, wTests[wIdx + 1].F.fn))
    /\ UNCHANGED <<wPc, wOrig, wTests>>
    /\ UNCHANGED nonWrap

\* funcValue(t): the original function runs, and returns or panics
WrapBody ==
    /\ wPc = "wrapped"
    /\ wStep = "started"
    /\ \E ev \in {"run", "run-panic"} :
          wLog' = Append(wLog, LogEv(ev, wTests[wIdx].Name, wTests[wIdx].F.fn))
    /\ wStep' = "ran"
    /\ UNCHANGED <<wPc, wOrig, wTests, wIdx>>
    /\ UNCHANGED nonWrap

\* the deferred tStruct.end(); after a panic it raises the panic again,
\* which ends the run
WrapEnd ==
    /\ wPc = "wrapped"
    /\ wStep = "ran"
    /\ wLog' = Append(wLog, LogEv("end", wTests[wIdx].Name, wTests[wIdx].F.fn))
    /\ wStep' = "idle"
    /\ wPc' = IF wLog[Len(wLog)].ev = "run-panic" THEN "crashed"
              ELSE IF wIdx = Len(wTests) THEN "done" ELSE "wrapped"
    /\ UNCHANGED <<wOrig, wTests, wIdx>>
    /\ UNCHANGED nonWrap

WrapReset ==
    /\ wPc \in {"done", "crashed"}
    /\ wPc' = "load"
    /\ wOrig' = <<>>
    /\ wTests' = <<>>
    /\ wIdx' = 0
    /\ wStep' = "idle"
    /\ wLog' = <<>>
    /\ UNCHANGED nonWrap

WrapNext ==
    WrapLoad \/ WrapInitM \/ WrapStart \/ WrapBody \/ WrapEnd \/ WrapReset

\* the positions of the log where the original function fn ran
RunsOf(fn) ==
    {k \in 1..Len(wLog) : wLog[k].ev \in {"run", "run-panic"} /\ wLog[k].fn = fn}

\* C28: after Init the list has as many tests as before, with the same
\* names in the same order, each a wrapper.  The i-th test run has run
\* the original function of the i-th test once, right after the
\* instrumented test of that name was started; and once the wrapper has
\* returned or panicked, that instrumented test was ended after it.
C28_WrappersKeepTests ==
    wPc \in {"wrapped", "done", "crashed"} =>
        /\ Len(wTests) = Len(wOrig)
        /\ \A i \in 1..Len(wOrig) :
              wTests[i].Name = wOrig[i].Name /\ wTests[i].F.kind = "wrapper"
        /\ \A i \in 1..wIdx :
              LET k == 3 * (i - 1) + 1 IN
              /\ wLog[k] = LogEv("start", wOrig[i].Name, wOrig[i].F.fn)
              /\ (i < wIdx \/ wStep # "started") =>
                    /\ RunsOf(wOrig[i].F.fn) = {k + 1}
                    /\ wLog[k + 1].name = wOrig[i].Name
              /\ (i < wIdx \/ wStep = "idle") =>
                    wLog[k + 2] = LogEv("end", wOrig[i].Name, wOrig[i].F.fn)
        /\ Len(wLog) <= 3 * wIdx

\* the second of two tests panicked and its instrumented test was ended
C28_Witness ==
    /\ wPc = "crashed"
    /\ Len(wOrig) = 2 /\ wIdx = 2
    /\ wLog[5].ev = "run-panic" /\ wLog[5].fn = wOrig[2].F.fn
    /\ wLog[6].ev = "end"
    /\ wLog[2].ev = "run" /\ wLog[2].fn = wOrig[1].F.fn

----------------------------------------------------------------------------
(* Properties of the identifier generator.                                 *)

\* the callers between Lock and Unlock
InCriticalSection == {c \in Callers : gpc[c] \in {"read", "advance", "unlock"}}

RECURSIVE SumLen(_)
SumLen(S) ==
    IF S = {} THEN 0
    ELSE LET c == CHOOSE x \in S : TRUE IN Len(gout[c]) + SumLen(S \ {c})

\* C9: at most one caller at a time is drawing, the ids handed out so far
\* come from as many distinct stream positions as there are ids (no
\* position is handed out twice, to one caller or to two), every position
\* the stream has passed was handed out, and the mutex is held exactly
\* while a caller is between Lock and Unlock, so it is free after every
\* call.
C9_ExclusiveDistinctDraws ==
    /\ Cardinality(InCriticalSection) <= 1
    /\ \A c \in Callers : (seededIDLock = c) <=> (c \in InCriticalSection)
    /\ \A c, d \in Callers : \A i \in 1..Len(gout[c]) : \A j \in 1..Len(gout[d]) :
          (gout[c][i] = gout[d][j]) => (c = d /\ i = j)
    /\ SumLen(Callers) = seededIDGen

\* every caller has drawn MaxIds ids, the calls of two callers were
\* interleaved, and all calls have returned
C9_Witness ==
    /\ \A c \in Callers : gpc[c] = "idle" /\ Len(gout[c]) = MaxIds
    /\ seededIDLock = Unlocked
    /\ \E c \in Callers : \E i \in 1..(MaxIds - 1) : gout[c][i + 1] # gout[c][i] + 1
    /\ \E c \in Callers : gop[c] = "randomID2"

----------------------------------------------------------------------------
(* agent: the span recorder and Agent.Flush / Agent.Stop.  The recorder    *)
(* buffers finished spans; one background loop delivers the buffer on its  *)
(* ticks and once more when its tomb is killed.  A delivery takes the      *)
(* whole buffer under the recorder's lock and then calls the send callback *)
(* outside it, so spans can be recorded while a delivery is under way.     *)

MaxSpans == 2
MaxBuffer == 1
MaxFailures == 1

SpanIds == 1..MaxSpans

\* no span
NoSpan == 0

\* the outcome of the send callback
SendOutcomes == {"ok", "error"}

RECURSIVE SeqToSet(_)
SeqToSet(q) == IF q = <<>> THEN {} ELSE {Head(q)} \cup SeqToSet(Tail(q))

\* the send callback is given the batch by the sender who
Delivered(log, batch, who) ==
    [s \in SpanIds |-> IF s \in SeqToSet(batch) THEN Append(log[s], who) ELSE log[s]]

\* SendSpans takes the buffer: the batch to deliver and what the buffer keeps
SendSpans(buffer) == [batch |-> buffer, rest |-> <<>>]

\* a failed batch goes back in front of the spans recorded since; of the
\* failed batch only the newest entries that fit the bound are kept
Requeue(batch, buffer) ==
    LET room == IF Len(buffer) >= MaxBuffer THEN 0 ELSE MaxBuffer - Len(buffer)
        keep == IF Len(batch) <= room THEN batch
                ELSE SubSeq(batch, Len(batch) - room + 1, Len(batch))
    IN  keep \o buffer

\* a Flush that leaves the buffer alone and sends nothing
AgentFlush_Skip(buffer) == [batch |-> <<>>, rest |-> buffer]

\* Agent.Flush: return a.recorder.SendSpans()
AgentFlush(buffer) == SendSpans(buffer)

\* a Kill that leaves the tomb as it is
Kill_Nothing(d) == d

\* a.recorder.t.Kill(nil): the tomb is dying from now on, whatever it was
Kill(d) == TRUE

\* a Wait that does not block
WaitReturns_AtOnce(loop) == TRUE

\* a.recorder.t.Wait() returns when the loop has terminated
WaitReturns(loop) == loop = "dead"

RecInit ==
    /\ spans = <<>>
    /\ recorded = 0
    /\ justRecorded = NoSpan
    /\ sent = [s \in SpanIds |-> <<>>]
    /\ failures = 0
    /\ lpc = "idle"
    /\ lbatch = <<>>
    /\ dying = FALSE
    /\ acked = {}
    /\ apc = "idle"
    /\ spc = "idle"
    /\ fbatch = <<>>
    /\ flushedAtOnce = {}
    /\ flushed = FALSE
    /\ stop = [called |-> FALSE, returned |-> FALSE, spans |-> {},
               flushedBefore |-> FALSE, again |-> FALSE, duringFlush |-> FALSE]

\* RecordSpan(span): append to the buffer
RecordSpan ==
    /\ recorded < MaxSpans
    /\ recorded' = recorded + 1
    /\ spans' = Append(spans, recorded + 1)
    /\ justRecorded' = recorded + 1
    /\ UNCHANGED <<sent, failures, lpc, lbatch, dying, acked, apc, spc, fbatch,
                   flushedAtOnce, flushed, stop>>
    /\ UNCHANGED nonRecorder

\* the loop wakes on its ticker with a non-empty buffer and takes it
LoopTick ==
    /\ lpc = "idle"
    /\ spans # <<>>
    /\ lbatch' = SendSpans(spans).batch
    /\ spans' = SendSpans(spans).rest
    /\ lpc' = "sending"
    /\ justRecorded' = NoSpan
    /\ UNCHANGED <<recorded, sent, failures, dying, acked, apc, spc, fbatch,
                   flushedAtOnce, flushed, stop>>
    /\ UNCHANGED nonRecorder

\* the send callback of a tick returns; a failed batch is kept for the next
\* tick
LoopSent ==
    /\ lpc = "sending"
    /\ sent' = Delivered(sent, lbatch, "tick")
    /\ \E outcome \in SendOutcomes :
          \/ /\ outcome = "ok"
             /\ acked' = acked \cup SeqToSet(lbatch)
             /\ UNCHANGED <<spans, failures>>
          \/ /\ outcome = "error"
             /\ failures < MaxFailures
             /\ failures' = failures + 1
             /\ spans' = Requeue(lbatch, spans)
             /\ UNCHANGED acked
    /\ lbatch' = <<>>
    /\ lpc' = "idle"
    /\ justRecorded' = NoSpan
    /\ UNCHANGED <<recorded, dying, apc, spc, fbatch, flushedAtOnce, flushed, stop>>
    /\ UNCHANGED nonRecorder

\* the loop sees its tomb dying and takes the buffer for the last delivery
LoopDying ==
    /\ lpc = "idle"
    /\ dying
    /\ lbatch' = SendSpans(spans).batch
    /\ spans' = SendSpans(spans).rest
    /\ lpc' = "final"
    /\ justRecorded' = NoSpan
    /\ UNCHANGED <<recorded, sent, failures, dying, acked, apc, spc, fbatch,
                   flushedAtOnce, flushed, stop>>
    /\ UNCHANGED nonRecorder

\* the last delivery returns, with or without an error, and the loop ends
LoopExit ==
    /\ lpc = "final"
    /\ sent' = Delivered(sent, lbatch, "final")
    /\ \E outcome \in SendOutcomes :
          acked' = IF outcome = "ok" THEN acked \cup SeqToSet(lbatch) ELSE acked
    /\ lbatch' = <<>>
    /\ lpc' = "dead"
    /\ justRecorded' = NoSpan
    /\ UNCHANGED <<spans, recorded, failures, dying, apc, spc, fbatch,
                   flushedAtOnce, flushed, stop>>
    /\ UNCHANGED nonRecorder

\* Agent.Flush is called: SendSpans takes the buffer
FlushCall ==
    /\ apc = "idle"
    /\ fbatch' = AgentFlush(spans).batch
    /\ spans' = AgentFlush(spans).rest
    /\ flushedAtOnce' = IF justRecorded = NoSpan THEN flushedAtOnce
                        ELSE flushedAtOnce \cup {justRecorded}
    /\ flushed' = TRUE
    /\ apc' = "flushing"
    /\ justRecorded' = NoSpan
    /\ UNCHANGED <<recorded, sent, failures, lpc, lbatch, dying, acked, spc, stop>>
    /\ UNCHANGED nonRecorder

\* the send callback of the Flush returns and Flush returns its error
FlushReturn ==
    /\ apc = "flushing"
    /\ sent' = Delivered(sent, fbatch, "flush")
    /\ \E outcome \in SendOutcomes :
          acked' = IF outcome = "ok" THEN acked \cup SeqToSet(fbatch) ELSE acked
    /\ fbatch' = <<>>
    /\ apc' = "idle"
    /\ justRecorded' = NoSpan
    /\ UNCHANGED <<spans, recorded, failures, lpc, lbatch, dying, spc,
                   flushedAtOnce, flushed, stop>>
    /\ UNCHANGED nonRecorder

\* Agent.Stop is called: a.recorder.t.Kill(nil)
StopKill ==
    /\ spc = "idle"
    /\ dying' = Kill(dying)
    /\ stop' = IF stop.called
               THEN [stop EXCEPT !.again = TRUE,
                                 !.duringFlush = @ \/ apc = "flushing"]
               ELSE [called |-> TRUE, returned |-> FALSE, spans |-> 1..recorded,
                     flushedBefore |-> flushed, again |-> FALSE,
                     duringFlush |-> apc = "flushing"]
    /\ spc' = "waiting"
    /\ justRecorded' = NoSpan
    /\ UNCHANGED <<spans, recorded, sent, failures, lpc, lbatch, acked, apc, fbatch,
                   flushedAtOnce, flushed>>
    /\ UNCHANGED nonRecorder

\* a.recorder.t.Wait() returns, the report is printed and Stop returns
StopReturn ==
    /\ spc = "waiting"
    /\ WaitReturns(lpc)
    /\ stop' = IF stop.returned THEN stop
               ELSE [stop EXCEPT !.returned = TRUE, !.flushedBefore = flushed]
    /\ spc' = "idle"
    /\ justRecorded' = NoSpan
    /\ UNCHANGED <<spans, recorded, sent, failures, lpc, lbatch, dying, acked, apc,
                   fbatch, flushedAtOnce, flushed>>
    /\ UNCHANGED nonRecorder

RecNext ==
    \/ RecordSpan
    \/ LoopTick
    \/ LoopSent
    \/ LoopDying
    \/ LoopExit
    \/ FlushCall
    \/ FlushReturn
    \/ StopKill
    \/ StopReturn

----------------------------------------------------------------------------
(* Properties of the recorder.                                             *)

\* C7: a span whose RecordSpan was followed at once by Agent.Flush is
\* passed to the send callback exactly once, by that Flush: until the
\* callback of that Flush is called the span waits in its batch and nobody
\* has sent it, and from then on the only delivery of the span is the one
\* by the Flush, whatever ticks, Flushes and Stops follow.
C7_FlushedExactlyOnce ==
    \A s \in flushedAtOnce :
        IF apc = "flushing" /\ s \in SeqToSet(fbatch)
        THEN sent[s] = <<>>
        ELSE sent[s] = <<"flush">>

C7_Witness ==
    /\ \E s \in flushedAtOnce : sent[s] = <<"flush">>
    /\ \E s \in SpanIds : "tick" \in SeqToSet(sent[s])
    /\ \E s \in SpanIds : "final" \in SeqToSet(sent[s])
    /\ stop.returned

\* C8: when the first Agent.Stop, called after N RecordSpan calls, has
\* returned and no Flush was called until then, each of the N spans has
\* been passed to the send callback.
C8_StopDeliversAll ==
    (stop.returned /\ ~stop.flushedBefore)
        => \A s \in stop.spans : sent[s] # <<>>

C8_Witness ==
    /\ stop.returned /\ ~stop.flushedBefore
    /\ stop.spans = SpanIds
    /\ \E s \in SpanIds : sent[s] = <<"final">>
    /\ \E s \in SpanIds : Len(sent[s]) >= 2

\* the spans waiting in the buffer or in a batch under delivery, in order
Pending == spans \o lbatch \o fbatch

----------------------------------------------------------------------------
(* agent: Agent.SetTestingMode and the recorder's flush frequency.  The    *)
(* frequency is the period of the background ticks; a tick comes after any *)
(* finite period, so LoopTick does not read it.                            *)

MaxChanges == 2

\* time.Second and time.Minute, in seconds
testingModeFrequency == 1
nonTestingModeFrequency == 60

\* the two frequencies exchanged
FrequencyFor_Swapped(enabled) ==
    IF enabled THEN nonTestingModeFrequency ELSE testingModeFrequency

\* the argument SetTestingMode gives ChangeFlushFrequency
FrequencyFor(enabled) ==
    IF enabled THEN testingModeFrequency ELSE nonTestingModeFrequency

\* NewAgent ends with agent.SetTestingMode(agent.testingMode), the mode
\* being off unless an option, the environment or a CI run turns it on
FreqInit ==
    /\ testingMode = FALSE
    /\ flushFrequency = FrequencyFor(FALSE)
    /\ changes = 0
    /\ unsentAtChange = {}

\* Agent.SetTestingMode(enabled); ChangeFlushFrequency stores the period
SetTestingMode ==
    /\ changes < MaxChanges
    /\ \E enabled \in BOOLEAN :
          /\ testingMode' = enabled
          /\ flushFrequency' = FrequencyFor(enabled)
    /\ changes' = changes + 1
    /\ unsentAtChange' =
          unsentAtChange \cup {s \in SeqToSet(spans) : sent[s] = <<>>}
    /\ UNCHANGED nonFrequency

FreqNext ==
    \/ RecordSpan
    \/ LoopTick
    \/ LoopSent
    \/ SetTestingMode

----------------------------------------------------------------------------
(* tracer: the in-memory recorder.  It has no background loop: RecordSpan  *)
(* appends the span, GetSpans gives all spans and GetSampledSpans those    *)
(* whose context is sampled.                                               *)

MaxRecorded == 3

\* the span of TestInMemoryRecorderSpans: its context is SpanContext{}
TestSpan == [Context |-> ZeroContext, Operation |-> "test-span", Duration |-> -1]

\* the spans handed to RecordSpan
RawSpans ==
    {[Context |-> c, Operation |-> o, Duration |-> -1] :
        c \in {ZeroContext, [ZeroContext EXCEPT !.Sampled = TRUE]},
        o \in {"test-span", "other"}}

\* GetSpans(): the spans as they are held
GetSpans(held) == held

\* a view that does not look at Sampled
GetSampledSpans_All(held) == held

\* GetSampledSpans(): an empty sequence to which each held span with a
\* sampled context is appended, in the order held
RECURSIVE GetSampledSpans(_)
GetSampledSpans(held) ==
    IF held = <<>> THEN <<>>
    ELSE (IF Head(held).Context.Sampled THEN <<Head(held)>> ELSE <<>>)
            \o GetSampledSpans(Tail(held))

NotRead == [read |-> FALSE, val |-> <<>>]

\* recorder := NewInMemoryRecorder()
InMemInit ==
    /\ mspans = <<>>
    /\ mlog = <<>>
    /\ mall = NotRead
    /\ msampled = NotRead

\* apiRecorder.RecordSpan(span)
InMemRecordSpan ==
    /\ Len(mlog) < MaxRecorded
    /\ \E span \in RawSpans :
          /\ mspans' = Append(mspans, span)
          /\ mlog' = Append(mlog, span)
    /\ mall' = NotRead
    /\ msampled' = NotRead
    /\ UNCHANGED nonInMemory

\* recorder.GetSpans()
InMemGetSpans ==
    /\ ~mall.read
    /\ mall' = [read |-> TRUE, val |-> GetSpans(mspans)]
    /\ UNCHANGED <<mspans, mlog, msampled>>
    /\ UNCHANGED nonInMemory

\* recorder.GetSampledSpans()
InMemGetSampledSpans ==
    /\ ~msampled.read
    /\ msampled' = [read |-> TRUE, val |-> GetSampledSpans(mspans)]
    /\ UNCHANGED <<mspans, mlog, mall>>
    /\ UNCHANGED nonInMemory

InMemNext ==
    \/ InMemRecordSpan
    \/ InMemGetSpans
    \/ InMemGetSampledSpans

\* the positions of the sampled spans among the first n calls of RecordSpan
SampledCalls(n) == {i \in 1..n : mlog[i].Context.Sampled}

\* C18: GetSpans returns the spans RecordSpan was called with, in the order
\* of the calls; GetSampledSpans returns those of them whose context is
\* sampled, each once and in the order of the calls, and the empty sequence
\* when none is sampled; the result for the single unsampled span of
\* TestInMemoryRecorderSpans is the one the test expects.
C18_InMemoryViews ==
    /\ mall.read => mall.val = mlog
    /\ msampled.read =>
          /\ Len(msampled.val) = Cardinality(SampledCalls(Len(mlog)))
          /\ \A k \in 1..Len(msampled.val) :
                \E i \in SampledCalls(Len(mlog)) :
                    /\ msampled.val[k] = mlog[i]
                    /\ Cardinality(SampledCalls(i)) = k
    /\ (mlog = <<TestSpan>> /\ mall.read /\ msampled.read)
          => (mall.val = <<TestSpan>> /\ msampled.val = <<>>)

C18_Witness ==
    /\ mall.read /\ msampled.read
    /\ Len(mlog) = 3
    /\ ~mlog[1].Context.Sampled /\ mlog[2].Context.Sampled /\ ~mlog[3].Context.Sampled
    /\ msampled.val = <<mlog[2]>>

----------------------------------------------------------------------------
(* tracer/propagation_ot.go: the type assertions at the head of Inject and *)
(* Extract.  The arguments are interface values: a value carries its       *)
(* dynamic type, and an assertion succeeds when that type is the asserted  *)
(* type or implements the asserted interface.                              *)

\* the dynamic types of the carriers handed to the propagators and the
\* interfaces each implements; "nil" is the nil interface value
Implemented ==
    [textMapCarrier |-> {"opentracing.TextMapWriter", "opentracing.TextMapReader"},
     textMapWriterOnly |-> {"opentracing.TextMapWriter"},
     textMapReaderOnly |-> {"opentracing.TextMapReader"},
     bytesBuffer |-> {"io.Writer", "io.Reader"},
     ioWriterOnly |-> {"io.Writer"},
     ioReaderOnly |-> {"io.Reader"},
     nil |-> {}]

CarrierTypes == DOMAIN Implemented

\* an assertion that never fails
Implements_Any(type, iface) == TRUE

\* opaqueCarrier.(iface)
Implements(type, iface) == iface \in Implemented[type]

\* the interface each propagator asserts in Inject and in Extract
WriterOf(prop) == IF prop = "text" THEN "opentracing.TextMapWriter" ELSE "io.Writer"
ReaderOf(prop) == IF prop = "text" THEN "opentracing.TextMapReader" ELSE "io.Reader"

\* the opentracing.SpanContext values handed to Inject: SpanContexts of this
\* tracer, a SpanContext of another tracer, and nil
ContextValues ==
    {[type |-> "tracer.SpanContext", sc |-> sc] : sc \in Contexts}
        \cup {[type |-> "other.SpanContext", sc |-> NilCtx],
              [type |-> "nil", sc |-> NilCtx]}

\* spanContext.(SpanContext)
IsSpanContext(v) == v.type = "tracer.SpanContext"

\* an empty carrier of the shape a propagator works on
EmptyContent(prop) == IF prop = "text" THEN {} ELSE <<>>

\* the contents of the carriers handed to Extract
Contents(prop) ==
    IF prop = "text"
    THEN {{}} \cup {TextInject(sc) : sc \in {ZeroContext}}
    ELSE {<<>>} \cup {BinaryInject(sc, <<>>) : sc \in {ZeroContext}}

CallsInit ==
    /\ xpc = "idle"
    /\ xcall = [op |-> "none"]
    /\ xcarrier = [type |-> "nil", content |-> {}]
    /\ xaccess = "none"
    /\ xres = NoResult

\* Inject(spanContext, opaqueCarrier) of the text or the binary propagator
CallInject ==
    /\ xpc = "idle"
    /\ \E prop \in {"text", "binary"}, v \in ContextValues, type \in CarrierTypes :
          LET carrier == [type |-> type, content |-> EmptyContent(prop)] IN
          /\ xcall' = [op |-> "Inject", prop |-> prop, ctx |-> v, carrier |-> carrier]
          /\ IF ~IsSpanContext(v)
             THEN /\ xres' = [ctx |-> NilCtx, err |-> "ErrInvalidSpanContext"]
                  /\ xcarrier' = carrier
                  /\ xaccess' = "none"
             ELSE IF ~Implements(type, WriterOf(prop))
             THEN /\ xres' = [ctx |-> NilCtx, err |-> "ErrInvalidCarrier"]
                  /\ xcarrier' = carrier
                  /\ xaccess' = "none"
             ELSE /\ xres' = [ctx |-> NilCtx, err |-> "nil"]
                  /\ xaccess' = "written"
                  /\ IF prop = "text"
                     THEN xcarrier' = [carrier EXCEPT !.content = TextInject(v.sc)]
                     ELSE \E keys \in Orders(DOMAIN v.sc.Baggage) :
                             xcarrier' = [carrier EXCEPT
                                            !.content = BinaryInject(v.sc, keys)]
    /\ xpc' = "returned"
    /\ UNCHANGED nonCalls

\* Extract(opaqueCarrier) of the text or the binary propagator
CallExtract ==
    /\ xpc = "idle"
    /\ \E prop \in {"text", "binary"}, type \in CarrierTypes :
       \E content \in Contents(prop) :
          LET carrier == [type |-> type, content |-> content] IN
          /\ xcall' = [op |-> "Extract", prop |-> prop, ctx |-> NilCtx,
                       carrier |-> carrier]
          /\ xcarrier' = carrier
          /\ IF ~Implements(type, ReaderOf(prop))
             THEN /\ xres' = [ctx |-> NilCtx, err |-> "ErrInvalidCarrier"]
                  /\ xaccess' = "none"
             ELSE /\ xaccess' = "read"
                  /\ IF prop = "text"
                     THEN \E ord \in Orders(content) : xres' = TextExtract(ord)
                     ELSE xres' = BinaryExtract(content, "buffer")
    /\ xpc' = "returned"
    /\ UNCHANGED nonCalls

CallReturn ==
    /\ xpc = "returned"
    /\ xpc' = "idle"
    /\ xcall' = [op |-> "none"]
    /\ xcarrier' = [type |-> "nil", content |-> {}]
    /\ xaccess' = "none"
    /\ xres' = NoResult
    /\ UNCHANGED nonCalls

CallsNext ==
    \/ CallInject
    \/ CallExtract
    \/ CallReturn

----------------------------------------------------------------------------
(* Properties of the type assertions.                                      *)

\* C15: Inject returns ErrInvalidSpanContext when the context is not a
\* SpanContext of this tracer; with such a context it returns
\* ErrInvalidCarrier when the carrier is not a text-map writer (text) or an
\* io.Writer (binary); Extract returns ErrInvalidCarrier and no context
\* when the carrier is not a text-map reader or an io.Reader; in each of
\* these cases the carrier is left as it was and was neither written nor
\* read.
C15_InvalidArguments ==
    xpc = "returned" =>
        /\ (xcall.op = "Inject" /\ ~IsSpanContext(xcall.ctx))
              => (/\ xres.err = "ErrInvalidSpanContext"
                  /\ xaccess = "none" /\ xcarrier = xcall.carrier)
        /\ (/\ xcall.op = "Inject" /\ IsSpanContext(xcall.ctx)
            /\ WriterOf(xcall.prop) \notin Implemented[xcall.carrier.type])
              => (/\ xres.err = "ErrInvalidCarrier"
                  /\ xaccess = "none" /\ xcarrier = xcall.carrier)
        /\ (/\ xcall.op = "Extract"
            /\ ReaderOf(xcall.prop) \notin Implemented[xcall.carrier.type])
              => (/\ xres = [ctx |-> NilCtx, err |-> "ErrInvalidCarrier"]
                  /\ xaccess = "none" /\ xcarrier = xcall.carrier)

C15_Witness ==
    /\ xpc = "returned"
    /\ xcall.op = "Inject" /\ xcall.prop = "binary"
    /\ xcall.ctx.type = "tracer.SpanContext"
    /\ xcall.carrier.type = "ioReaderOnly"
    /\ xres.err = "ErrInvalidCarrier"
    /\ xcarrier.content = <<>>

----------------------------------------------------------------------------
Init == TextInit /\ BinInit /\ GenInit /\ RecInit /\ CallsInit /\ FreqInit /\ InMemInit /\ SeedInit /\ HttpInit /\ SourcesInit /\ PatchInit /\ AgentInit /\ EndInit /\ WrapInit

Next == TextNext

Spec == Init /\ [][Next]_vars

SpecBinary == Init /\ [][BinNext]_vars

SpecGenerator == Init /\ [][GenNext]_vars

SpecRecorder == Init /\ [][RecNext]_vars

SpecCalls == Init /\ [][CallsNext]_vars

SpecInMemory == Init /\ [][InMemNext]_vars

SpecSeed == Init /\ [][SeedNext]_vars

SpecHttp == Init /\ [][HttpNext]_vars

SpecSources == Init /\ [][SourcesNext]_vars

SpecPatch == Init /\ [][PatchNext]_vars

SpecAgent == Init /\ [][AgentNext]_vars

SpecEnd == Init /\ [][EndNext]_vars

SpecWrap == Init /\ [][WrapNext]_vars

\* a run of RecordSpan calls, ticks and frequency changes: the ticker
\* fires and the send callback returns
SpecFrequency ==
    /\ Init /\ [][FreqNext]_vars
    /\ WF_vars(LoopTick) /\ WF_vars(LoopSent)

\* the send callback returns, the loop's select takes the dying case when
\* it is ready often enough, and a Wait that can return does
SpecRecorderFair ==
    /\ Init /\ [][RecNext]_vars
    /\ WF_vars(LoopSent) /\ WF_vars(LoopExit)
    /\ SF_vars(LoopDying)
    /\ WF_vars(StopReturn)
====
